---- MODULE Spec2Model ----
(***************************************************************************)
(* Verification model of parts of libheif:                                 *)
(*   - IDCreator (libheif/id_creator.{h,cc}): the ID allocator,            *)
(*   - encode_vmt_metadata_track (examples/vmt.cc): the WebVMT cue parser  *)
(*     that emits raw samples into a metadata track.                       *)
(* Each part has its own specification (SpecID, SpecVMT); the variables of *)
(* the other part stay at their initial values.                            *)
(***************************************************************************)
EXTENDS Integers, Sequences, FiniteSets, TLC

VARIABLES
  m_unif,        \* IDCreator::m_unif
  m_next_id,     \* IDCreator::m_next_id_{item,track,entity_group,global}, by counter name
  id_log,        \* history: one record per get_new_id call (or run of calls)
  prev_ts,       \* vmt.cc: static std::optional<uint32_t> prev_ts
  prev_metadata, \* vmt.cc: static std::vector<uint8_t> prev_metadata
  vmt_pc,        \* where encode_vmt_metadata_track is: "idle", "reading", "aborted"
  binary,        \* the binary argument of the running call
  track,         \* the samples added to the metadata track by the current call
  runs,          \* number of calls of encode_vmt_metadata_track started
  cue_log,       \* history: the cues read by the current call
  last_cue,      \* history: <<>> or <<r>>, r the state before the last cue read
  alone,         \* the same call on the same file in a process of its own
  enc_pc,        \* where encode_tile is: "idle", "rows", "done", "aborted"
  enc_cfg,       \* the image encode_tile was called on, and the format of
                 \* the image the encoder was constructed for
  total_size,    \* encode_tile: total_size, the size data was resized to
  enc,           \* encode_tile: data, out_pos, accumulator, accumulated_bits,
                 \* and whether a write has fallen outside data
  shadow,        \* the same, for a second image of the same format
  enc_comp,      \* encode_tile: the component of m_components being encoded
  enc_y,         \* encode_tile: y, the row being encoded
  row_log,       \* history: one record per row encoded
  bayer_pc,      \* demosaic: "idle", "converted", "offered"
  conv_input,    \* the image (or input state) the demosaic operation was called on
  plane_error,   \* the error add_plane had for the output plane of the call
  conv_result,   \* what convert_colorspace returned: an error or an image
  offered,       \* what state_after_conversion returned
  pol_patterns,  \* the polarization patterns of the image, in the order added
  pol_call,      \* the last call on the polarization patterns and its result
  comp_pc,       \* compression: "idle", "translated", "compressed"
  comp_call,     \* <<>> or <<a>>, a the arguments of the compression call
  comp_result,   \* <<>> or <<r>>, r what the compression call returned
  ctor_pc,       \* constructor: "idle", "constructed"
  ctor_image,    \* <<>> or <<i>>, i the image the encoder was constructed for
  ctor_enc,      \* <<>> or <<e>>, e the members of the encoder constructed
  att_image,     \* the attachments of the image
  att_before,    \* history: the attachments before the last call
  att_call,      \* the last attachment call and the error it returned
  box_pc,        \* where the test case of a box is
  box_wire,      \* the bytes read, or the bytes written from a box made by the caller
  box_limits,    \* the security limits of the last Box::read
  box_error,     \* the error of the first Box::read or write
  box_box,       \* <<>> or the box read, or made by the caller
  box_again      \* <<>>, or the bytes written from the box read, or what reading the bytes written returned

idVars == <<m_unif, m_next_id, id_log>>

vmtVars == <<prev_ts, prev_metadata, vmt_pc, binary, track, runs, cue_log,
             last_cue, alone>>

encVars == <<enc_pc, enc_cfg, total_size, enc, shadow, enc_comp, enc_y,
             row_log>>

bayerVars == <<bayer_pc, conv_input, plane_error, conv_result, offered>>

polVars == <<pol_patterns, pol_call>>

compVars == <<comp_pc, comp_call, comp_result>>

ctorVars == <<ctor_pc, ctor_image, ctor_enc>>

attVars == <<att_image, att_before, att_call>>

boxVars == <<box_pc, box_wire, box_limits, box_error, box_box, box_again>>

vars ==
  <<idVars, vmtVars, encVars, bayerVars, polVars, compVars, ctorVars,
    attVars, boxVars>>

\* The variables that are not of one part.
notID ==
  <<vmtVars, encVars, bayerVars, polVars, compVars, ctorVars, attVars,
    boxVars>>

notVMT ==
  <<idVars, encVars, bayerVars, polVars, compVars, ctorVars, attVars,
    boxVars>>

notENC ==
  <<idVars, vmtVars, bayerVars, polVars, compVars, ctorVars, attVars,
    boxVars>>

notBAYER ==
  <<idVars, vmtVars, encVars, polVars, compVars, ctorVars, attVars, boxVars>>

notPOL ==
  <<idVars, vmtVars, encVars, bayerVars, compVars, ctorVars, attVars,
    boxVars>>

notCOMP ==
  <<idVars, vmtVars, encVars, bayerVars, polVars, ctorVars, attVars, boxVars>>

notCTOR ==
  <<idVars, vmtVars, encVars, bayerVars, polVars, compVars, attVars, boxVars>>

notATT ==
  <<idVars, vmtVars, encVars, bayerVars, polVars, compVars, ctorVars,
    boxVars>>

notBOX ==
  <<idVars, vmtVars, encVars, bayerVars, polVars, compVars, ctorVars,
    attVars>>

(***************************************************************************)
(* Bounds of the model.                                                    *)
(***************************************************************************)
\* Longest history of get_new_id calls (or runs of calls) explored.
MaxCalls == 3

\* Most cues in one WebVMT file.
MaxCues == 3

\* Most cues in one WebVMT file of a process that reads several files.
MaxRunCues == 1

\* Most calls of encode_vmt_metadata_track in one process.
MaxRuns == 2

\* Largest tile encoded.
MaxTileWidth == 3

MaxTileHeight == 2

\* Largest filter-array image demosaiced, and largest Bayer pattern.
MaxImage == 4

MaxPattern == 2

(***************************************************************************)
(* Unsigned numbers wider than the model checker's integers.               *)
(* TLC's integers end at 2^31 - 1, so a uint32_t (and a count of calls,    *)
(* which may exceed 2^32) is held as <<hi, lo>>, standing for              *)
(* hi * 2^16 + lo with 0 <= lo < 2^16: the number 1 is <<0, 1>>, and       *)
(* 0xFFFFFFFF is <<65535, 65535>>.                                         *)
(***************************************************************************)
Radix == 2^16

\* The wide number of a small integer k >= 0.
N(k) == <<k \div Radix, k % Radix>>

Zero == N(0)

One == N(1)

Add(a, b) ==
  LET s == a[2] + b[2]
  IN  <<a[1] + b[1] + (s \div Radix), s % Radix>>

\* a - b, for a >= b.
Sub(a, b) ==
  IF a[2] >= b[2] THEN <<a[1] - b[1], a[2] - b[2]>>
                  ELSE <<a[1] - b[1] - 1, a[2] + Radix - b[2]>>

Lt(a, b) == a[1] < b[1] \/ (a[1] = b[1] /\ a[2] < b[2])

Le(a, b) == a = b \/ Lt(a, b)

Min(a, b) == IF Lt(a, b) THEN a ELSE b

\* Conversion to uint32_t: the value modulo 2^32.
ToU32(a) == <<a[1] % Radix, a[2]>>

\* 2^32, the number of values of a uint32_t.
TwoTo32 == <<Radix, 0>>

\* 0xFFFFFFFF, the largest uint32_t.
MaxU32 == <<Radix - 1, Radix - 1>>

(***************************************************************************)
(* IDCreator                                                               *)
(***************************************************************************)
\* enum class Namespace { item, track, entity_group }
Namespace == {"item", "track", "entity_group"}

\* The four uint32_t counters of the class.
Counters == Namespace \cup {"global"}

\* Mutant: every namespace uses the item counter.
counter_of_always_item(unif, ns) == IF unif THEN "global" ELSE "item"

\* The counter a call selects: the global one in unified mode, otherwise the
\* one of the namespace (the switch of get_new_id).
counter_of(unif, ns) == IF unif THEN "global" ELSE ns

\* Mutant: the counter is returned but not incremented.
get_new_id_no_increment(c) ==
  IF c = Zero
    THEN [error |-> "Usage_error: ID namespace overflow", id |-> Zero, next |-> c]
    ELSE [error |-> "Ok", id |-> c, next |-> c]

\* Mutant: the overflow test is missing.
get_new_id_no_overflow_test(c) ==
  [error |-> "Ok", id |-> c, next |-> ToU32(Add(c, One))]

\* One call of get_new_id on the selected counter c: the error when c is 0,
\* otherwise the value of c, with c post-incremented in 32 bits.
get_new_id(c) ==
  IF c = Zero
    THEN [error |-> "Usage_error: ID namespace overflow", id |-> Zero, next |-> c]
    ELSE [error |-> "Ok", id |-> c, next |-> ToU32(Add(c, One))]

\* n successive calls of get_new_id that select the same counter c: the first
\* Min(n, 2^32 - c) calls return c, c+1, ... (lo .. hi) and every later one the
\* error; error is the outcome of the last call.
get_new_id_times(c, n) ==
  LET ok == IF c = Zero THEN Zero ELSE Min(n, Sub(TwoTo32, c))
  IN  [ok |-> ok,
       lo |-> IF ok = Zero THEN Zero ELSE c,
       hi |-> IF ok = Zero THEN Zero ELSE Sub(Add(c, ok), One),
       errs |-> Sub(n, ok),
       error |-> IF Sub(n, ok) = Zero THEN "Ok"
                 ELSE "Usage_error: ID namespace overflow",
       next |-> ToU32(Add(c, ok))]

\* Sizes of the runs of calls explored besides single calls: a short run, and a
\* run that takes a fresh counter to its last value.
Bursts == {N(2), Sub(MaxU32, One)}

IDInit ==
  /\ m_unif = FALSE
  /\ m_next_id = [c \in Counters |-> One]
  /\ id_log = <<>>

\* void set_unif(bool flag)
SetUnif(flag) ==
  /\ m_unif' = flag
  /\ UNCHANGED <<m_next_id, id_log>>
  /\ UNCHANGED notID

\* Result<uint32_t> get_new_id(Namespace ns), one call.
GetNewId(ns) ==
  /\ Len(id_log) < MaxCalls
  /\ LET c == counter_of(m_unif, ns)
         r == get_new_id(m_next_id[c])
     IN  /\ m_next_id' = [m_next_id EXCEPT ![c] = r.next]
         /\ id_log' = Append(id_log,
              [ns |-> ns, unif |-> m_unif, counter |-> c, calls |-> One,
               before |-> m_next_id[c], after |-> r.next,
               ok |-> IF r.error = "Ok" THEN One ELSE Zero,
               errs |-> IF r.error = "Ok" THEN Zero ELSE One,
               error |-> r.error, lo |-> r.id, hi |-> r.id])
  /\ UNCHANGED m_unif
  /\ UNCHANGED notID

\* n calls of get_new_id(ns) in a row.
GetNewIdTimes(ns, n) ==
  /\ Len(id_log) < MaxCalls
  /\ LET c == counter_of(m_unif, ns)
         r == get_new_id_times(m_next_id[c], n)
     IN  /\ m_next_id' = [m_next_id EXCEPT ![c] = r.next]
         /\ id_log' = Append(id_log,
              [ns |-> ns, unif |-> m_unif, counter |-> c, calls |-> n,
               before |-> m_next_id[c], after |-> r.next,
               ok |-> r.ok, errs |-> r.errs, error |-> r.error,
               lo |-> r.lo, hi |-> r.hi])
  /\ UNCHANGED m_unif
  /\ UNCHANGED notID

(***************************************************************************)
(* WebVMT metadata track (examples/vmt.cc)                                 *)
(* A string is a sequence of one-character strings, a byte an integer in   *)
(* 0 .. 255, a uint32_t a wide number <<hi, lo>> as above.                 *)
(***************************************************************************)
\* static const uint32_t BAD_VMT_TIMESTAMP = 0xFFFFFFFE
BAD_VMT_TIMESTAMP == <<Radix - 1, Radix - 2>>

Digits == <<"0", "1", "2", "3", "4", "5", "6", "7", "8", "9">>

LowerHex == <<"a", "b", "c", "d", "e", "f">>

UpperHex == <<"A", "B", "C", "D", "E", "F">>

UpperCase ==
  <<"A", "B", "C", "D", "E", "F", "G", "H", "I", "J", "K", "L", "M", "N",
    "O", "P", "Q", "R", "S", "T", "U", "V", "W", "X", "Y", "Z">>

LowerCase ==
  <<"a", "b", "c", "d", "e", "f", "g", "h", "i", "j", "k", "l", "m", "n",
    "o", "p", "q", "r", "s", "t", "u", "v", "w", "x", "y", "z">>

\* The characters with codes 32 .. 47 but the double quote, held by a space.
Punctuation ==
  <<" ", "!", " ", "#", "$", "%", "&", "'", "(", ")", "*", "+", ",", "-",
    ".", "/">>

\* const std::string base64 in decode_base64.
Base64Alphabet == UpperCase \o LowerCase \o Digits \o <<"+", "/">>

\* std::string::find on a table: the 0-based position of ch in table, or
\* Len(table) when ch is not in it.
Find(table, ch) ==
  IF \E i \in DOMAIN table : table[i] = ch
    THEN (CHOOSE i \in DOMAIN table : table[i] = ch) - 1
    ELSE Len(table)

\* The code of a character (the uint8_t a char of a std::string converts
\* to), for letters, digits and the punctuation above.
Ord(ch) ==
  IF Find(UpperCase, ch) < 26 THEN 65 + Find(UpperCase, ch)
  ELSE IF Find(LowerCase, ch) < 26 THEN 97 + Find(LowerCase, ch)
  ELSE IF Find(Digits, ch) < 10 THEN 48 + Find(Digits, ch)
  ELSE 32 + Find(Punctuation, ch)

IsDigit(ch) == Find(Digits, ch) < 10

AllDigits(str) == \A i \in DOMAIN str : IsDigit(str[i])

\* std::stoi on a string of decimal digits.
RECURSIVE stoi(_)
stoi(str) ==
  IF str = <<>> THEN 0
  ELSE 10 * stoi(SubSeq(str, 1, Len(str) - 1)) + Find(Digits, str[Len(str)])

\* nibble_to_val: the value of a hex digit, -1 for std::nullopt.
nibble_to_val(ch) ==
  IF Find(Digits, ch) < 10 THEN Find(Digits, ch)
  ELSE IF Find(LowerHex, ch) < 6 THEN Find(LowerHex, ch) + 10
  ELSE IF Find(UpperHex, ch) < 6 THEN Find(UpperHex, ch) + 10
  ELSE -1

\* The loop of hex_to_binary from character i on: high is high_nibble, cur is
\* current_value, data the bytes pushed so far.
RECURSIVE hex_loop(_, _, _, _, _)
hex_loop(line, i, high, cur, data) ==
  IF i > Len(line) THEN data
  ELSE LET v == nibble_to_val(line[i])
       IN  IF v = -1 THEN hex_loop(line, i + 1, high, cur, data)
           ELSE IF high
             THEN hex_loop(line, i + 1, FALSE, (v * 16) % 256, data)
             ELSE hex_loop(line, i + 1, TRUE, cur + v, Append(data, cur + v))

\* hex_to_binary: pairs of hex digits to bytes, other characters ignored, a
\* trailing single digit dropped.
hex_to_binary(line) == hex_loop(line, 1, TRUE, 0, <<>>)

\* The loop of decode_base64 over the groups of four characters from i on
\* (i is 1-based here), len the length rounded down to a multiple of four.
RECURSIVE base64_loop(_, _, _, _)
base64_loop(line, i, len, data) ==
  IF i > len THEN data
  ELSE LET buf == [j \in 0..3 |-> Find(Base64Alphabet, line[i + j])]
           b0  == (((buf[0] * 4) % 256) + (buf[1] \div 16)) % 256
           b1  == ((((buf[1] % 16) * 16) % 256) + (buf[2] \div 4)) % 256
           b2  == ((((buf[2] % 4) * 64) % 256) + buf[3]) % 256
           d0  == Append(data, b0)
           d1  == IF line[i + 2] # "=" THEN Append(d0, b1) ELSE d0
           d2  == IF line[i + 3] # "=" THEN Append(d1, b2) ELSE d1
       IN  base64_loop(line, i + 4, len, d2)

\* decode_base64
decode_base64(line) == base64_loop(line, 1, (Len(line) \div 4) * 4, <<>>)

\* std::regex_match of type against pattern_hex or pattern_b64: type ends
\* with the suffix.
EndsWith(str, suffix) ==
  /\ Len(str) >= Len(suffix)
  /\ SubSeq(str, Len(str) - Len(suffix) + 1, Len(str)) = suffix

\* The bytes of a std::string.
Bytes(str) == [i \in DOMAIN str |-> Ord(str[i])]

\* parse_vmt_sync_data, on the sync commands its regular expressions find in
\* the cue body, each given by its type and its data string: the data is
\* hex-decoded when the type ends in .hex, base64-decoded when it ends in
\* .base64, copied otherwise.
RECURSIVE parse_vmt_sync_data(_)
parse_vmt_sync_data(syncs) ==
  IF syncs = <<>> THEN <<>>
  ELSE LET sync == Head(syncs)
           binaryData ==
             IF EndsWith(sync.type, <<".", "h", "e", "x">>)
               THEN hex_to_binary(sync.data)
             ELSE IF EndsWith(sync.type, <<".", "b", "a", "s", "e", "6", "4">>)
               THEN decode_base64(sync.data)
             ELSE Bytes(sync.data)
       IN  binaryData \o parse_vmt_sync_data(Tail(syncs))

\* The binary branch of the cue body loop: every line hex-decoded on its own.
RECURSIVE hex_lines(_)
hex_lines(lines) ==
  IF lines = <<>> THEN <<>>
  ELSE hex_to_binary(Head(lines)) \o hex_lines(Tail(lines))

\* The bytes (concat) of a cue body: in binary mode the body is its lines, in
\* text mode the sync commands found in it.
cue_payload(bin, body) ==
  IF bin THEN hex_lines(body) ELSE parse_vmt_sync_data(body)

\* The timestamp without its optional leading minus sign.
Unsigned(str) == IF str # <<>> /\ str[1] = "-" THEN Tail(str) ELSE str

\* The pattern of parse_vmt_timestamp (optional minus sign, optional hours and
\* colon, MM:SS, optional dot and fraction digits) matched against the whole
\* of str, a string whose minus sign is removed, with MM at position m (when
\* m > 1 the hours and their colon come before it).
TimestampMatches(str, m) ==
  /\ m >= 1
  /\ Len(str) >= m + 4
  /\ (m > 1 => (str[m - 1] = ":" /\ AllDigits(SubSeq(str, 1, m - 2))))
  /\ IsDigit(str[m]) /\ IsDigit(str[m + 1])
  /\ str[m + 2] = ":"
  /\ IsDigit(str[m + 3]) /\ IsDigit(str[m + 4])
  /\ (Len(str) >= m + 5
        => (str[m + 5] = "." /\ AllDigits(SubSeq(str, m + 6, Len(str)))))

\* The sub-matches 2, 3, 4 and 6 of a match with MM at position m.
TimestampFields(str, m) ==
  [matched |-> TRUE,
   hh |-> IF m > 1 THEN SubSeq(str, 1, m - 2) ELSE <<>>,
   mm |-> SubSeq(str, m, m + 1),
   ss |-> SubSeq(str, m + 3, m + 4),
   fs |-> IF Len(str) >= m + 5 THEN SubSeq(str, m + 6, Len(str)) ELSE <<>>]

\* std::regex_match of vmt_time against the pattern: with hours when the
\* text up to the first colon is the hours field, without them otherwise.
MatchTimestamp(vmt_time) ==
  LET str == Unsigned(vmt_time)
      c1  == Find(str, ":") + 1
  IN  IF TimestampMatches(str, c1 + 1) THEN TimestampFields(str, c1 + 1)
      ELSE IF TimestampMatches(str, 1) THEN TimestampFields(str, 1)
      ELSE [matched |-> FALSE, hh |-> <<>>, mm |-> <<>>, ss |-> <<>>,
            fs |-> <<>>]

\* parse_vmt_timestamp: 0 when the pattern does not match or the string has
\* a minus sign, BAD_VMT_TIMESTAMP when the millisecond field is not empty and
\* not 3 digits long, the time in milliseconds otherwise (for times whose
\* int arithmetic does not overflow: less than 597 hours).
parse_vmt_timestamp(vmt_time) ==
  LET match == MatchTimestamp(vmt_time)
  IN  IF ~match.matched THEN Zero
      ELSE IF Find(vmt_time, "-") < Len(vmt_time) THEN Zero
      ELSE IF match.fs # <<>> /\ Len(match.fs) # 3 THEN BAD_VMT_TIMESTAMP
      ELSE N((IF match.hh # <<>> THEN stoi(match.hh) ELSE 0) * 3600 * 1000
             + stoi(match.mm) * 60 * 1000
             + stoi(match.ss) * 1000
             + (IF match.fs # <<>> THEN stoi(match.fs) ELSE 0))

\* A sample given to heif_track_add_raw_sequence_sample; last tells whether
\* the flush after the loop added it.
Sample(duration, data, last) ==
  [duration |-> duration, data |-> data, terminal |-> last]

\* Mutant: a cue at the pending timestamp also emits a sample.
cue_step_emits_on_equal(pts, pmd, ts, concat) ==
  IF ts # BAD_VMT_TIMESTAMP
    THEN [emitted |-> IF Le(pts.value, ts)
                        THEN <<Sample(Sub(ts, pts.value), pmd, FALSE)>>
                        ELSE <<>>,
          prev_ts |-> [engaged |-> TRUE, value |-> ts],
          prev_metadata |-> concat,
          warning |-> IF Le(pts.value, ts) THEN "" ELSE "Bad WebVMT timestamp order"]
    ELSE [emitted |-> <<>>, prev_ts |-> pts, prev_metadata |-> pmd,
          warning |-> "Bad WebVMT timestamp"]

\* The emission step of the cue loop (if (ts != BAD_VMT_TIMESTAMP) ... else
\* ...), on the statics pts (prev_ts, value being what *prev_ts reads) and pmd
\* (prev_metadata), the cue's timestamp ts and its bytes concat: the sample
\* added, if any, the new statics, and the warning printed, if any.
cue_step(pts, pmd, ts, concat) ==
  IF ts # BAD_VMT_TIMESTAMP
    THEN [emitted |-> IF Lt(pts.value, ts)
                        THEN <<Sample(Sub(ts, pts.value), pmd, FALSE)>>
                        ELSE <<>>,
          prev_ts |-> [engaged |-> TRUE, value |-> ts],
          prev_metadata |-> IF ts = pts.value THEN pmd \o concat ELSE concat,
          warning |-> IF Le(pts.value, ts) THEN "" ELSE "Bad WebVMT timestamp order"]
    ELSE [emitted |-> <<>>, prev_ts |-> pts, prev_metadata |-> pmd,
          warning |-> "Bad WebVMT timestamp"]

\* The statics before the first call: prev_ts holds no value and its
\* zero-initialized storage reads 0, prev_metadata is empty.
FreshStatics ==
  [prev_ts |-> [engaged |-> FALSE, value |-> Zero], prev_metadata |-> <<>>]

\* Start timestamps of the cues explored (match[1] of pattern_cue).
CueStarts ==
  { <<"0", "0", ":", "0", "0", ".", "0", "0", "0">>,
    <<"0", "0", ":", "0", "1", ".", "0", "0", "0">>,
    <<"0", "0", ":", "0", "2", ".", "5", "0", "0">>,
    <<"1", ":", "0", "0", ":", "0", "1">>,
    <<"-", "0", "0", ":", "0", "1", ".", "0", "0", "0">>,
    <<"0", "0", ":", "0", "1", ".", "5">>,
    <<"5">> }

\* Cue bodies explored in binary mode: the lines after the cue header.
BinaryBodies ==
  { << <<"4", "1">> >>,
    << <<"4", "-", "2", "c">>, <<"C", "3">> >> }

\* Cue bodies explored in text mode: the sync commands in the lines after the
\* cue header.
TextBodies ==
  { << [type |-> <<"a", ".", "h", "e", "x">>, data |-> <<"4", "a">>] >>,
    << [type |-> <<"t">>, data |-> <<"h", "i">>],
       [type |-> <<"a", ".", "b", "a", "s", "e", "6", "4">>,
        data |-> <<"Q", "U", "I", "=">>] >> }

Bodies(bin) == IF bin THEN BinaryBodies ELSE TextBodies

\* parse_vmt_timestamp and the body conversion on the inputs explored.
TimestampOf == [cue_start \in CueStarts |-> parse_vmt_timestamp(cue_start)]

PayloadOf ==
  [bin \in BOOLEAN |-> [body \in Bodies(bin) |-> cue_payload(bin, body)]]

VMTInit ==
  /\ prev_ts = FreshStatics.prev_ts
  /\ prev_metadata = FreshStatics.prev_metadata
  /\ vmt_pc = "idle"
  /\ binary = FALSE
  /\ track = <<>>
  /\ runs = 0
  /\ cue_log = <<>>
  /\ last_cue = <<>>
  /\ alone = [prev_ts |-> FreshStatics.prev_ts,
              prev_metadata |-> FreshStatics.prev_metadata, track |-> <<>>]

\* encode_vmt_metadata_track is called: a new track, the file opened. The
\* statics keep what the previous call left in them.
StartRun(bin) ==
  /\ vmt_pc = "idle"
  /\ runs < MaxRuns
  /\ vmt_pc' = "reading"
  /\ binary' = bin
  /\ runs' = runs + 1
  /\ track' = <<>>
  /\ cue_log' = <<>>
  /\ last_cue' = <<>>
  /\ alone' = [prev_ts |-> FreshStatics.prev_ts,
               prev_metadata |-> FreshStatics.prev_metadata, track |-> <<>>]
  /\ UNCHANGED <<prev_ts, prev_metadata>>
  /\ UNCHANGED notVMT

\* One pass of the while loop that finds a cue: its start timestamp parsed,
\* its body read and converted, the emission step run on the statics. When
\* prev_ts holds no value, *prev_ts reads its zero-initialized storage.
ReadCue(cue_start, body) ==
  /\ vmt_pc = "reading"
  /\ Len(cue_log) < MaxCues
  /\ LET ts     == TimestampOf[cue_start]
         concat == PayloadOf[binary][body]
         r      == cue_step(prev_ts, prev_metadata, ts, concat)
         a      == cue_step(alone.prev_ts, alone.prev_metadata, ts, concat)
     IN  /\ prev_ts' = r.prev_ts
         /\ prev_metadata' = r.prev_metadata
         /\ track' = track \o r.emitted
         /\ cue_log' = Append(cue_log, [cue_start |-> cue_start, ts |-> ts,
                                        concat |-> concat])
         /\ last_cue' = << [pre_ts |-> prev_ts,
                            pre_metadata |-> prev_metadata,
                            pre_samples |-> Len(track),
                            warning |-> r.warning] >>
         /\ alone' = [prev_ts |-> a.prev_ts, prev_metadata |-> a.prev_metadata,
                      track |-> alone.track \o a.emitted]
  /\ UNCHANGED <<vmt_pc, binary, runs>>
  /\ UNCHANGED notVMT

\* The same pass in a build whose std::optional checks operator*: reading
\* *prev_ts while prev_ts holds no value ends the process.
ReadCueAbort(cue_start, body) ==
  /\ vmt_pc = "reading"
  /\ Len(cue_log) < MaxCues
  /\ TimestampOf[cue_start] # BAD_VMT_TIMESTAMP
  /\ ~prev_ts.engaged
  /\ vmt_pc' = "aborted"
  /\ UNCHANGED <<prev_ts, prev_metadata, binary, track, runs, cue_log,
                 last_cue, alone>>
  /\ UNCHANGED notVMT

\* std::getline fails: the loop ends, the pending payload is added as a
\* sample of duration 1, and the call returns.
EndOfFile ==
  /\ vmt_pc = "reading"
  /\ vmt_pc' = "idle"
  /\ track' = Append(track, Sample(One, prev_metadata, TRUE))
  /\ alone' = [alone EXCEPT
                 !.track = Append(alone.track,
                                  Sample(One, alone.prev_metadata, TRUE))]
  /\ UNCHANGED <<prev_ts, prev_metadata, binary, runs, cue_log, last_cue>>
  /\ UNCHANGED notVMT

(***************************************************************************)
(* unc_encoder_component_interleave                                        *)
(* (libheif/codecs/uncompressed/unc_encoder_component_interleave.cc).      *)
(* A machine word is a sequence of bits, most significant first: the       *)
(* uint32_t sample has 32 of them, the uint64_t accumulator 64. A byte of  *)
(* the output is a number 0 .. 255. The planes of the source image hold    *)
(* one sample in 1, 2 or 4 bytes, least significant byte first.            *)
(***************************************************************************)
Zeros(n) == [i \in 1..n |-> 0]

\* The number a byte of 8 bits stands for, and the 8 bits of a number.
ByteVal(bits) ==
  128 * bits[1] + 64 * bits[2] + 32 * bits[3] + 16 * bits[4]
    + 8 * bits[5] + 4 * bits[6] + 2 * bits[7] + bits[8]

ByteBitsOf == [v \in 0..255 |-> [i \in 1..8 |-> (v \div (2 ^ (8 - i))) % 2]]

ByteBits(v) == ByteBitsOf[v]

\* word << n and a | b on words of one width.
ShiftLeft(word, n) == SubSeq(word, n + 1, Len(word)) \o Zeros(n)

BitOr(a, b) == [i \in DOMAIN a |-> IF a[i] = 1 \/ b[i] = 1 THEN 1 ELSE 0]

\* word & ((1 << n) - 1): the n low bits kept.
LowBits(word, n) ==
  Zeros(Len(word) - n) \o SubSeq(word, Len(word) - n + 1, Len(word))

\* static_cast<uint8_t>(word >> n).
ByteAt(word, n) == ByteVal(SubSeq(word, Len(word) - n - 7, Len(word) - n))

\* Conversion of an unsigned value to a wider unsigned type.
ZeroExtend(word, width) == Zeros(width - Len(word)) \o word

\* Bytes a plane holds per sample: the type the bit-packed path reads a
\* sample of bpp bits with (uint8_t, uint16_t, uint32_t).
StorageBytes(bpp) == IF bpp <= 8 THEN 1 ELSE IF bpp <= 16 THEN 2 ELSE 4

\* The bytes of a value in memory, least significant first.
StoreLE(word) ==
  LET k == Len(word) \div 8
  IN  [j \in 1..k |-> ByteVal(SubSeq(word, 8 * (k - j) + 1, 8 * (k - j) + 8))]

\* The row of a plane in memory: its samples (of bpp bits each) one after
\* the other, each in StorageBytes(bpp) bytes.
RECURSIVE StoreRow(_, _)
StoreRow(samples, bpp) ==
  IF samples = <<>> THEN <<>>
  ELSE StoreLE(ZeroExtend(Head(samples), 8 * StorageBytes(bpp)))
         \o StoreRow(Tail(samples), bpp)

\* row[x], reinterpret_cast<const uint16_t*>(row)[x] or
\* reinterpret_cast<const uint32_t*>(row)[x], converted to uint32_t; x
\* counts from 0.
RECURSIVE LoadLE(_, _, _)
LoadLE(row, at, k) ==
  IF k = 0 THEN <<>> ELSE LoadLE(row, at + 1, k - 1) \o ByteBits(row[at])

LoadSample(row, x, bpp) ==
  ZeroExtend(LoadLE(row, x * StorageBytes(bpp) + 1, StorageBytes(bpp)), 32)

\* The components m_components holds for an image, by its chroma format;
\* all have bpp bits.
Chromas == {"monochrome", "444", "422", "420"}

ComponentsOf(chroma, bpp) ==
  LET comp(ch) == [channel |-> ch, bpp |-> bpp, byte_aligned |-> (bpp % 8 = 0)]
  IN  IF chroma = "monochrome" THEN << comp("Y") >>
      ELSE << comp("Y"), comp("Cb"), comp("Cr") >>

\* Width and height of the plane of a channel in an image of the given
\* size: the chroma planes of a 4:2:2 image have half the width, those of a
\* 4:2:0 image half the width and half the height, rounded up.
get_component_width(chroma, channel, width) ==
  IF channel \in {"Cb", "Cr"} /\ chroma \in {"420", "422"}
    THEN (width + 1) \div 2 ELSE width

get_component_height(chroma, channel, height) ==
  IF channel \in {"Cb", "Cr"} /\ chroma = "420"
    THEN (height + 1) \div 2 ELSE height

\* Mutant: the row of a bit-packed component counted in whole bytes only.
row_bytes_rounded_down(comp, plane_width) ==
  IF comp.byte_aligned
    THEN plane_width * ((comp.bpp + 7) \div 8)
    ELSE (plane_width * comp.bpp) \div 8

\* row_bytes of compute_tile_data_size_bytes.
row_bytes(comp, plane_width) ==
  IF comp.byte_aligned
    THEN plane_width * ((comp.bpp + 7) \div 8)
    ELSE (plane_width * comp.bpp + 7) \div 8

\* compute_tile_data_size_bytes: the loop over m_components from component
\* k on. The sampling type of m_uncC is the image's chroma format.
RECURSIVE tile_size_from(_, _, _, _, _)
tile_size_from(comps, k, chroma, tile_width, tile_height) ==
  IF k > Len(comps) THEN 0
  ELSE LET comp == comps[k]
           chroma_plane == comp.channel \in {"Cb", "Cr"}
           plane_width ==
             IF chroma_plane /\ chroma \in {"420", "422"}
               THEN (tile_width + 1) \div 2 ELSE tile_width
           plane_height ==
             IF chroma_plane /\ chroma = "420"
               THEN (tile_height + 1) \div 2 ELSE tile_height
       IN  row_bytes(comp, plane_width) * plane_height
             + tile_size_from(comps, k + 1, chroma, tile_width, tile_height)

compute_tile_data_size_bytes(comps, chroma, tile_width, tile_height) ==
  tile_size_from(comps, 1, chroma, tile_width, tile_height)

\* data[pos] = byte on the state of encode_tile, pos counted from 0. A write
\* past the end of data is outside the vector: the behaviour is undefined,
\* which the state records; what the call then does (the process ends, or
\* the call goes on with data as it is) is chosen in EncodeRow.
Store(st, pos, byte) ==
  IF pos < Len(st.data)
    THEN [st EXCEPT !.data = [st.data EXCEPT ![pos + 1] = byte]]
    ELSE [st EXCEPT !.undefined = TRUE]

\* Mutant: the bits written stay in the accumulator (no mask after a byte
\* is written).
RECURSIVE drain_without_mask(_)
drain_without_mask(st) ==
  IF st.accumulated_bits >= 8
    THEN LET bits == st.accumulated_bits - 8
         IN  drain_without_mask(
               [Store(st, st.out_pos, ByteAt(st.accumulator, bits))
                  EXCEPT !.accumulated_bits = bits,
                         !.out_pos = st.out_pos + 1])
    ELSE st

\* The while loop of the bit-packed path: whole bytes leave the accumulator.
RECURSIVE drain(_)
drain(st) ==
  IF st.accumulated_bits >= 8
    THEN LET bits == st.accumulated_bits - 8
         IN  drain([Store(st, st.out_pos, ByteAt(st.accumulator, bits))
                      EXCEPT !.accumulator = LowBits(st.accumulator, bits),
                             !.accumulated_bits = bits,
                             !.out_pos = st.out_pos + 1])
    ELSE st

\* accumulator = (accumulator << bpp) | sample; accumulated_bits += bpp.
push(st, sample, bpp) ==
  [st EXCEPT
     !.accumulator = BitOr(ShiftLeft(st.accumulator, bpp),
                           ZeroExtend(sample, 64)),
     !.accumulated_bits = st.accumulated_bits + bpp]

\* The loop over x of the bit-packed path, from sample x on.
RECURSIVE pack_samples(_, _, _, _, _)
pack_samples(st, row, x, plane_width, bpp) ==
  IF x >= plane_width THEN st
  ELSE pack_samples(drain(push(st, LoadSample(row, x, bpp), bpp)),
                    row, x + 1, plane_width, bpp)

\* The partial byte written at the end of a row.
flush(st) ==
  IF st.accumulated_bits > 0
    THEN [Store(st, st.out_pos,
                ByteAt(ShiftLeft(st.accumulator, 8 - st.accumulated_bits), 0))
            EXCEPT !.out_pos = st.out_pos + 1]
    ELSE st

\* Mutant: the accumulator keeps the bits left by the row before.
row_start_keeps_bits(st) == st

\* uint64_t accumulator = 0; int accumulated_bits = 0; at the start of a row.
row_start(st) ==
  [st EXCEPT !.accumulator = Zeros(64), !.accumulated_bits = 0]

\* memcpy of n bytes of row to data + pos.
RECURSIVE memcpy(_, _, _, _)
memcpy(st, pos, row, n) ==
  IF n = 0 THEN st
  ELSE Store(memcpy(st, pos, row, n - 1), pos + n - 1, row[n])

\* One row of the byte-aligned path.
copy_row(st, row, plane_width, bpp) ==
  LET bytes_per_pixel == (bpp + 7) \div 8
  IN  [memcpy(st, st.out_pos, row, plane_width * bytes_per_pixel)
         EXCEPT !.out_pos = st.out_pos + plane_width * bytes_per_pixel]

\* One pass of the loop over y of encode_tile, in either path.
encode_row(st, comp, row, plane_width) ==
  IF comp.byte_aligned
    THEN copy_row(st, row, plane_width, comp.bpp)
    ELSE flush(pack_samples(row_start(st), row, 0, plane_width, comp.bpp))

\* The bits a sample of bpp bits holds, out of four patterns: no bit, every
\* bit, every other bit from the highest, the lowest bit.
PatternBits(p, bpp) ==
  [i \in 1..bpp |->
     IF p = 0 THEN 0
     ELSE IF p = 1 THEN 1
     ELSE IF p = 2 THEN i % 2
     ELSE IF i = bpp THEN 1 ELSE 0]

\* The samples of row r (counted over all planes) of the image of a seed.
Pixels(seed, r, plane_width, bpp) ==
  [x \in 1..plane_width |-> PatternBits((seed + r + x) % 4, bpp)]

Seeds == 0..1

BppValues == 1..32

\* The images encoded: a tile size, a chroma format, a bit depth, the seed
\* of the samples, and the row on which the second image, of the next seed,
\* has the samples of the first; built is the chroma format of the image
\* the encoder was constructed for (the sampling type of m_uncC). The image
\* passed to encode_tile has the components of that image, and its planes
\* have the sizes of its own chroma format.
NumRows(chroma, height) ==
  height + (IF chroma = "monochrome" THEN 0
            ELSE 2 * get_component_height(chroma, "Cb", height))

EncConfigs ==
  { cfg \in [width : 1..MaxTileWidth, height : 1..MaxTileHeight,
             chroma : Chromas, built : Chromas, bpp : BppValues,
             seed : Seeds, keep : 1..(3 * MaxTileHeight)] :
      /\ cfg.keep <= NumRows(cfg.chroma, cfg.height)
      /\ (cfg.built = "monochrome") <=> (cfg.chroma = "monochrome")
      /\ cfg.built # cfg.chroma => (cfg.seed = 0 /\ cfg.keep = 1) }

\* The image passed to encode_tile has the format the encoder was built for.
SameFormat == enc_cfg.built = enc_cfg.chroma

\* Row r of the image, and of the second image.
SourceRow(cfg, r, plane_width) == Pixels(cfg.seed, r, plane_width, cfg.bpp)

OtherRow(cfg, r, plane_width) ==
  Pixels(IF r = cfg.keep THEN cfg.seed ELSE cfg.seed + 1, r, plane_width,
         cfg.bpp)

FreshTile(size) ==
  [data |-> Zeros(size), out_pos |-> 0,
   accumulator |-> Zeros(64), accumulated_bits |-> 0, undefined |-> FALSE]

EncInit ==
  /\ enc_pc = "idle"
  /\ enc_cfg = <<>>
  /\ total_size = 0
  /\ enc = FreshTile(0)
  /\ shadow = FreshTile(0)
  /\ enc_comp = 0
  /\ enc_y = 0
  /\ row_log = <<>>

\* encode_tile up to its loop: the size computed from m_components and the
\* sampling type of m_uncC, data resized (to zero bytes), out_pos = 0.
EncodeTile(cfg) ==
  /\ enc_pc = "idle"
  /\ enc_pc' = "rows"
  /\ enc_cfg' = cfg
  /\ total_size' =
       compute_tile_data_size_bytes(ComponentsOf(cfg.built, cfg.bpp),
                                    cfg.built, cfg.width, cfg.height)
  /\ enc' = FreshTile(total_size')
  /\ shadow' = FreshTile(total_size')
  /\ enc_comp' = 1
  /\ enc_y' = 0
  /\ row_log' = <<>>
  /\ UNCHANGED notENC

\* One pass of the loop over y for component enc_comp, on the image and on
\* the second image, with the plane sizes of the image passed; after the
\* last row of the last component encode_tile returns data. Once a write
\* has fallen outside data the behaviour is undefined: the process ends
\* (a heap check, an assertion of the library, a sanitizer) or the call goes
\* on, the bytes written outside data not being part of it.
EncodeRow ==
  /\ enc_pc = "rows"
  /\ LET comps        == ComponentsOf(enc_cfg.built, enc_cfg.bpp)
         comp         == comps[enc_comp]
         plane_width  == get_component_width(enc_cfg.chroma, comp.channel,
                                             enc_cfg.width)
         plane_height == get_component_height(enc_cfg.chroma, comp.channel,
                                              enc_cfg.height)
         r            == Len(row_log) + 1
         samples      == SourceRow(enc_cfg, r, plane_width)
         others       == OtherRow(enc_cfg, r, plane_width)
         after        == encode_row(enc, comp, StoreRow(samples, comp.bpp),
                                    plane_width)
         shadow_after == encode_row(shadow, comp, StoreRow(others, comp.bpp),
                                    plane_width)
         last_row     == enc_y + 1 >= plane_height
     IN  /\ enc' = after
         /\ shadow' = shadow_after
         /\ row_log' = Append(row_log,
                              [component |-> enc_comp, y |-> enc_y,
                               plane_width |-> plane_width,
                               from |-> enc.out_pos, to |-> enc'.out_pos,
                               shadow_from |-> shadow.out_pos,
                               shadow_to |-> shadow'.out_pos])
         /\ enc_y' = IF last_row THEN 0 ELSE enc_y + 1
         /\ enc_comp' = IF last_row THEN enc_comp + 1 ELSE enc_comp
         /\ \E abort \in (IF enc'.undefined THEN BOOLEAN ELSE {FALSE}) :
              enc_pc' = IF abort THEN "aborted"
                        ELSE IF last_row /\ enc_comp = Len(comps)
                          THEN "done" ELSE "rows"
  /\ UNCHANGED <<enc_cfg, total_size>>
  /\ UNCHANGED notENC

(***************************************************************************)
(* Op_bayer_bilinear_to_RGB24_32                                           *)
(* (libheif/color-conversion/bayer_bilinear.cc): the bilinear demosaic of  *)
(* a filter-array image. The input is a record: the image's size and bit   *)
(* depth, its filter-array plane (plane[y][x], counted from 0), the types  *)
(* of its components, and its Bayer pattern (pw, ph and, per pattern       *)
(* position, the index of a component), if it has one.                     *)
(***************************************************************************)
heif_uncompressed_component_type_Y == 1

heif_uncompressed_component_type_red == 4

heif_uncompressed_component_type_green == 5

heif_uncompressed_component_type_blue == 6

\* state_after_conversion: the output states offered for an input state, a
\* sequence of none or one.
\* Mutant: every bit depth up to 16 is taken.
state_after_conversion_up_to_16(input_state) ==
  IF input_state.colorspace # "filter_array" \/ input_state.chroma # "monochrome"
    THEN <<>>
  ELSE IF input_state.bits_per_pixel <= 8
    THEN << [colorspace |-> "RGB", has_alpha |-> FALSE,
             chroma |-> "interleaved_RGB", bits_per_pixel |-> 8] >>
  ELSE IF input_state.bits_per_pixel <= 16
    THEN << [colorspace |-> "RGB", has_alpha |-> FALSE,
             chroma |-> "interleaved_RRGGBB_LE",
             bits_per_pixel |-> input_state.bits_per_pixel] >>
  ELSE <<>>

state_after_conversion(input_state) ==
  IF input_state.colorspace # "filter_array" \/ input_state.chroma # "monochrome"
    THEN <<>>
  ELSE IF input_state.bits_per_pixel = 8
    THEN << [colorspace |-> "RGB", has_alpha |-> FALSE,
             chroma |-> "interleaved_RGB", bits_per_pixel |-> 8] >>
  ELSE IF input_state.bits_per_pixel > 8 /\ input_state.bits_per_pixel <= 16
    THEN << [colorspace |-> "RGB", has_alpha |-> FALSE,
             chroma |-> "interleaved_RRGGBB_LE",
             bits_per_pixel |-> input_state.bits_per_pixel] >>
  ELSE <<>>

\* Mutant: a component that is not red, green or blue counts as green.
component_type_to_rgb_index_default_green(component_type) ==
  IF component_type = heif_uncompressed_component_type_red THEN 0
  ELSE IF component_type = heif_uncompressed_component_type_blue THEN 2
  ELSE 1

component_type_to_rgb_index(component_type) ==
  IF component_type = heif_uncompressed_component_type_red THEN 0
  ELSE IF component_type = heif_uncompressed_component_type_green THEN 1
  ELSE IF component_type = heif_uncompressed_component_type_blue THEN 2
  ELSE -1

\* The % of C++ on int: the remainder has the sign of the dividend.
Rem(a, b) == IF a >= 0 THEN a % b ELSE -((-a) % b)

\* pattern_channel, indexed from 0.
pattern_channel_of(input) ==
  [i \in 0..(input.pw * input.ph - 1) |->
     component_type_to_rgb_index(
       input.component_types[input.pixels[i + 1] + 1])]

\* neighbor_offsets[py * pw + px] after k passes of the body of the loops
\* over dy and dx: per channel, a sequence of offsets <<dx, dy>>.
RECURSIVE collect_offsets(_, _, _, _, _, _)
collect_offsets(pattern_channel, pw, ph, px, py, k) ==
  LET this_ch == pattern_channel[py * pw + px]
  IN  IF k = 0
        THEN [ch \in 0..2 |-> IF ch = this_ch THEN << <<0, 0>> >> ELSE <<>>]
        ELSE LET offsets == collect_offsets(pattern_channel, pw, ph, px, py, k - 1)
                 search_radius_x == pw - 1
                 search_radius_y == ph - 1
                 dy == ((k - 1) \div (2 * search_radius_x + 1)) - search_radius_y
                 dx == ((k - 1) % (2 * search_radius_x + 1)) - search_radius_x
                 npx == Rem(Rem(px + dx, pw) + pw, pw)
                 npy == Rem(Rem(py + dy, ph) + ph, ph)
                 neighbor_ch == pattern_channel[npy * pw + npx]
             IN  IF dx = 0 /\ dy = 0 THEN offsets
                 ELSE IF neighbor_ch # this_ch
                   THEN [offsets EXCEPT ![neighbor_ch] = Append(@, <<dx, dy>>)]
                 ELSE offsets

\* Mutant: no neighbour is searched.
neighbor_offsets_own_only(pattern_channel, pw, ph) ==
  [i \in 0..(pw * ph - 1) |->
     collect_offsets(pattern_channel, pw, ph, i % pw, i \div pw, 0)]

neighbor_offsets(pattern_channel, pw, ph) ==
  [i \in 0..(pw * ph - 1) |->
     collect_offsets(pattern_channel, pw, ph, i % pw, i \div pw,
                     (2 * pw - 1) * (2 * ph - 1))]

\* Mutant: only the right and the bottom edge of the image are tested.
outside_image_right_bottom(nx, ny, width, height) ==
  nx >= width \/ ny >= height

\* The test that skips a neighbour.
outside_image(nx, ny, width, height) ==
  nx < 0 \/ nx >= width \/ ny < 0 \/ ny >= height

\* in[ny * in_str + nx]; a read at coordinates outside the plane (none is
\* made by the code) gives 0 here.
InputAt(input, nx, ny) ==
  IF nx \in 0..(input.width - 1) /\ ny \in 0..(input.height - 1)
    THEN input.plane[ny][nx] ELSE 0

\* The loop over ch_offsets for one output pixel and channel, after k
\* passes: sum, count, and the coordinates read.
RECURSIVE sum_neighbors(_, _, _, _, _)
sum_neighbors(input, ch_offsets, x, y, k) ==
  IF k = 0 THEN [sum |-> 0, count |-> 0, reads |-> {}]
  ELSE LET acc == sum_neighbors(input, ch_offsets, x, y, k - 1)
           nx  == x + ch_offsets[k][1]
           ny  == y + ch_offsets[k][2]
       IN  IF outside_image(nx, ny, input.width, input.height) THEN acc
           ELSE [sum |-> acc.sum + InputAt(input, nx, ny),
                 count |-> acc.count + 1,
                 reads |-> acc.reads \cup {<<nx, ny>>}]

\* Mutant: the average is rounded down.
rounded_average_truncating(sum, count, pixel_bits) ==
  IF count > 0 THEN (sum \div count) % (2 ^ pixel_bits) ELSE 0

\* count > 0 ? static_cast<Pixel>((sum + count / 2) / count) : 0
rounded_average(sum, count, pixel_bits) ==
  IF count > 0 THEN ((sum + count \div 2) \div count) % (2 ^ pixel_bits) ELSE 0

\* The demosaic lambda: per output pixel and channel, the value written and
\* the coordinates of the input samples read for it.
demosaic(input, offsets, pixel_bits) ==
  [y \in 0..(input.height - 1) |->
     [x \in 0..(input.width - 1) |->
        [ch \in 0..2 |->
           LET ch_offsets == offsets[(y % input.ph) * input.pw + (x % input.pw)][ch]
               acc == sum_neighbors(input, ch_offsets, x, y, Len(ch_offsets))
           IN  [value |-> rounded_average(acc.sum, acc.count, pixel_bits),
                reads |-> acc.reads]]]]

ConversionError(code, sub) == [error |-> code, suberror |-> sub, image |-> <<>>]

\* HeifPixelImage::add_plane under the limits passed: what it returns for
\* the interleaved plane of the output, no error or its error when the plane
\* is over the limits or cannot be allocated.
add_plane_Ok == [error |-> "heif_error_Ok", suberror |-> ""]

add_plane_errors ==
  { add_plane_Ok,
    [error |-> "heif_error_Memory_allocation_error",
     suberror |-> "heif_suberror_Security_limit_exceeded"],
    [error |-> "heif_error_Memory_allocation_error",
     suberror |-> "heif_suberror_Unspecified"] }

\* convert_colorspace: an error, or the output image. err is what add_plane
\* returns for the interleaved plane of the output; the plane is added, and
\* its error returned, before the component types of the pattern are looked
\* at.
convert_colorspace(input, err) ==
  IF ~input.has_bayer_pattern
    THEN ConversionError("InternalError", "")
  ELSE IF input.pw = 0 \/ input.ph = 0
    THEN ConversionError("InternalError", "")
  ELSE IF err # add_plane_Ok
    THEN ConversionError(err.error, err.suberror)
  ELSE LET hdr == input.bpp > 8
           out_chroma == IF hdr THEN "interleaved_RRGGBB_LE" ELSE "interleaved_RGB"
           pattern_channel == pattern_channel_of(input)
       IN  IF \E i \in DOMAIN pattern_channel : pattern_channel[i] < 0
             THEN ConversionError("heif_error_Unsupported_feature",
                                  "heif_suberror_Unsupported_data_version")
             ELSE [error |-> "heif_error_Ok", suberror |-> "",
                   image |-> << [width |-> input.width, height |-> input.height,
                                 colorspace |-> "RGB", chroma |-> out_chroma,
                                 bpp |-> input.bpp,
                                 out |-> demosaic(input,
                                                  neighbor_offsets(pattern_channel,
                                                                   input.pw, input.ph),
                                                  IF hdr THEN 16 ELSE 8)] >>]

\* The component types of the images converted, by component index, and the
\* component indices of their patterns: the pattern of pw x ph positions
\* repeats one of these orders.
ComponentTypes ==
  << heif_uncompressed_component_type_red,
     heif_uncompressed_component_type_green,
     heif_uncompressed_component_type_blue,
     heif_uncompressed_component_type_Y >>

PatternOrders ==
  { <<0, 1, 1, 2>>, <<1, 0, 2, 1>>, <<2, 1, 0>>, <<0>>, <<0, 1>>,
    <<0, 1, 3, 2>>, <<3>> }

PatternPixels(order, pw, ph) ==
  [i \in 1..(pw * ph) |-> order[((i - 1) % Len(order)) + 1]]

\* The samples of the planes converted: all of the highest value of the bit
\* depth, a ramp, a checkerboard of the highest value and 0 (and all 1 in
\* the images without pattern).
Fills == {"max", "ramp", "checker"}

Fill(kind, x, y, bpp) ==
  IF kind = "max" THEN 2 ^ bpp - 1
  ELSE IF kind = "one" THEN 1
  ELSE IF kind = "ramp" THEN (977 * x + 3331 * y + 11) % (2 ^ bpp)
  ELSE IF (x + y) % 2 = 0 THEN 2 ^ bpp - 1 ELSE 0

BayerDepths == {4, 8, 16}

BayerImage(has, pw, ph, order, width, height, bpp, fill) ==
  [has_bayer_pattern |-> has, pw |-> pw, ph |-> ph,
   pixels |-> PatternPixels(order, pw, ph),
   component_types |-> ComponentTypes,
   width |-> width, height |-> height, bpp |-> bpp, fill |-> fill,
   plane |-> [y \in 0..(height - 1) |->
                [x \in 0..(width - 1) |-> Fill(fill, x, y, bpp)]]]

\* Images with a pattern (a dimension of which may be 0), and images
\* without one.
BayerInputs ==
  { BayerImage(TRUE, pw, ph, order, width, height, bpp, fill) :
      pw \in 0..MaxPattern, ph \in 0..MaxPattern, order \in PatternOrders,
      width \in 1..MaxImage, height \in 1..MaxImage, bpp \in BayerDepths,
      fill \in Fills }
  \cup
  { BayerImage(FALSE, 0, 0, <<0>>, width, height, bpp, "one") :
      width \in 1..MaxImage, height \in 1..MaxImage, bpp \in BayerDepths }

\* The input states state_after_conversion is asked about.
InputStates ==
  [colorspace : {"filter_array", "RGB", "monochrome"},
   chroma : {"monochrome", "444"},
   bits_per_pixel : 1..32]

BayerInit ==
  /\ bayer_pc = "idle"
  /\ conv_input = <<>>
  /\ plane_error = add_plane_Ok
  /\ conv_result = <<>>
  /\ offered = <<>>

\* A call of convert_colorspace, add_plane returning err.
ConvertColorspace(input, err) ==
  /\ bayer_pc = "idle"
  /\ bayer_pc' = "converted"
  /\ conv_input' = input
  /\ plane_error' = err
  /\ conv_result' = convert_colorspace(input, err)
  /\ UNCHANGED offered
  /\ UNCHANGED notBAYER

\* A call of state_after_conversion.
StateAfterConversion(input_state) ==
  /\ bayer_pc = "idle"
  /\ bayer_pc' = "offered"
  /\ conv_input' = input_state
  /\ offered' = state_after_conversion(input_state)
  /\ UNCHANGED <<plane_error, conv_result>>
  /\ UNCHANGED notBAYER

(***************************************************************************)
(* Polarization patterns of an image (heif_uncompressed.cc).  The image    *)
(* keeps its patterns in the order they were added; a pattern holds the    *)
(* component indices it applies to and its dimensions.  A pointer argument *)
(* is <<>> for nullptr and <<v>> for a pointer to v.                       *)
(***************************************************************************)
\* The most patterns added to the image.
MaxPatterns == 2

\* The largest component index used.
MaxComponent == 1

ComponentIndices == 0..MaxComponent

\* HeifPixelImage::add_polarization_pattern: the pattern is stored after
\* the ones the image holds.
add_polarization_pattern(patterns, pattern) == Append(patterns, pattern)

\* heif_image_add_polarization_pattern: the error returned.
add_polarization_pattern_error(image, num_component_indices, component_indices, pattern_width, pattern_height, polarization_angles) ==
  IF image = <<>> \/ polarization_angles = <<>>
    THEN "heif_error_null_pointer_argument"
  ELSE IF num_component_indices > 0 /\ component_indices = <<>>
    THEN "heif_error_null_pointer_argument"
  ELSE IF pattern_width = 0 \/ pattern_height = 0
    THEN "heif_error_Usage_error"
  ELSE "heif_error_success"

\* heif_image_add_polarization_pattern: the patterns of the image after
\* the call (those of the image the program holds, which image points to
\* when it is not nullptr).
heif_image_add_polarization_pattern(patterns, image, num_component_indices, component_indices, pattern_width, pattern_height, polarization_angles) ==
  IF add_polarization_pattern_error(image, num_component_indices,
                                    component_indices, pattern_width,
                                    pattern_height, polarization_angles)
       # "heif_error_success"
    THEN patterns
    ELSE add_polarization_pattern(
           patterns,
           [component_indices |->
              IF num_component_indices = 0 THEN <<>>
              ELSE SubSeq(component_indices[1], 1, num_component_indices),
            pattern_width |-> pattern_width,
            pattern_height |-> pattern_height])

\* heif_image_get_number_of_polarization_patterns.
heif_image_get_number_of_polarization_patterns(image) ==
  IF image = <<>> THEN 0 ELSE Len(image[1])

\* The loop of the lookup from pattern i on (i counts from 0): a pattern
\* with an empty component list, or one that lists component_index, ends it.
RECURSIVE find_pattern(_, _, _)
find_pattern(patterns, component_index, i) ==
  IF i >= Len(patterns) THEN -1
  ELSE LET p == patterns[i + 1]
       IN IF p.component_indices = <<>> THEN i
          ELSE IF \E k \in DOMAIN p.component_indices :
                     p.component_indices[k] = component_index
            THEN i
          ELSE find_pattern(patterns, component_index, i + 1)

\* A lookup that returns a pattern with an empty list only when no pattern
\* lists the component.
RECURSIVE find_pattern_listed(_, _, _)
find_pattern_listed(patterns, component_index, i) ==
  IF i >= Len(patterns) THEN -1
  ELSE IF \E k \in DOMAIN patterns[i + 1].component_indices :
            patterns[i + 1].component_indices[k] = component_index
    THEN i
  ELSE find_pattern_listed(patterns, component_index, i + 1)

heif_image_get_polarization_pattern_index_for_component_listed_first(image, component_index) ==
  IF image = <<>> THEN -1
  ELSE IF find_pattern_listed(image[1], component_index, 0) >= 0
    THEN find_pattern_listed(image[1], component_index, 0)
  ELSE find_pattern(image[1], component_index, 0)

\* heif_image_get_polarization_pattern_index_for_component.
heif_image_get_polarization_pattern_index_for_component(image, component_index) ==
  IF image = <<>> THEN -1
  ELSE find_pattern(image[1], component_index, 0)

\* The component lists passed to heif_image_add_polarization_pattern.
ComponentLists ==
  {<<>>} \cup {<<a>> : a \in ComponentIndices}
         \cup {<<a, b>> : a \in ComponentIndices, b \in ComponentIndices}

\* The arguments of heif_image_add_polarization_pattern.
AddArguments ==
  [image_null : BOOLEAN,
   num_component_indices : 0..2,
   component_indices : {<<>>} \cup {<<l>> : l \in ComponentLists},
   pattern_width : 0..1,
   pattern_height : 0..1,
   polarization_angles_null : BOOLEAN]

\* The count does not pass the end of the array.
ValidArguments(a) ==
  a.component_indices # <<>>
    => a.num_component_indices <= Len(a.component_indices[1])

PolInit ==
  /\ pol_patterns = <<>>
  /\ pol_call = [function |-> "none", error |-> "", component_index |-> 0,
                 image_null |-> FALSE, result |-> 0]

\* A call of heif_image_add_polarization_pattern.
AddPolarizationPattern(a) ==
  LET image == IF a.image_null THEN <<>> ELSE <<pol_patterns>>
      angles == IF a.polarization_angles_null THEN <<>> ELSE <<0>>
  IN /\ ValidArguments(a)
     /\ pol_patterns' =
          heif_image_add_polarization_pattern(
            pol_patterns, image, a.num_component_indices,
            a.component_indices, a.pattern_width, a.pattern_height, angles)
     /\ pol_call' =
          [function |-> "add",
           error |-> add_polarization_pattern_error(
                       image, a.num_component_indices, a.component_indices,
                       a.pattern_width, a.pattern_height, angles),
           component_index |-> 0, image_null |-> a.image_null,
           result |-> 0]
     /\ UNCHANGED notPOL

\* A call of heif_image_get_polarization_pattern_index_for_component.
GetPatternIndexForComponent(image_null, component_index) ==
  LET image == IF image_null THEN <<>> ELSE <<pol_patterns>>
  IN /\ pol_call' =
          [function |-> "index_for_component", error |-> "",
           component_index |-> component_index, image_null |-> image_null,
           result |-> heif_image_get_polarization_pattern_index_for_component(
                        image, component_index)]
     /\ UNCHANGED pol_patterns
     /\ UNCHANGED notPOL

\* A call of heif_image_get_number_of_polarization_patterns.
GetNumberOfPatterns(image_null) ==
  LET image == IF image_null THEN <<>> ELSE <<pol_patterns>>
  IN /\ pol_call' =
          [function |-> "number", error |-> "", component_index |-> 0,
           image_null |-> image_null,
           result |-> heif_image_get_number_of_polarization_patterns(image)]
     /\ UNCHANGED pol_patterns
     /\ UNCHANGED notPOL

(***************************************************************************)
(* Generic compression of unci data (compression.cc).  A Result is a       *)
(* record: has_value tells whether it holds data; backend and input name   *)
(* the compression function that produced the data and what it was given.  *)
(***************************************************************************)
\* The longest data compressed.
MaxData == 2

heif_unci_compression_off == 0

heif_unci_compression_deflate == 3

heif_unci_compression_zlib == 4

heif_unci_compression_brotli == 5

\* fourcc: four characters as one 32-bit value, the first character in the
\* highest byte.
fourcc(id) ==
  ((Ord(id[1]) * 256 + Ord(id[2])) * 256 + Ord(id[3])) * 256 + Ord(id[4])

\* unci_compression_to_fourcc.
unci_compression_to_fourcc(method) ==
  IF method = heif_unci_compression_off THEN 0
  ELSE IF method = heif_unci_compression_deflate
    THEN fourcc(<<"d", "e", "f", "l">>)
  ELSE IF method = heif_unci_compression_zlib
    THEN fourcc(<<"z", "l", "i", "b">>)
  ELSE IF method = heif_unci_compression_brotli
    THEN fourcc(<<"b", "r", "o", "t">>)
  ELSE 0

\* compress_deflate, compress_zlib, compress_brotli: the data a back-end
\* returns.
compressed_by(backend, data) ==
  [has_value |-> TRUE, error |-> "heif_error_Ok", suberror |-> "",
   message |-> "", backend |-> backend, input |-> data]

unsupported_method ==
  [has_value |-> FALSE, error |-> "heif_error_Unsupported_feature",
   suberror |-> "heif_suberror_Unsupported_generic_compression_method",
   message |-> "Unsupported unci compression method.",
   backend |-> "", input |-> <<>>]

\* compress_unci_fourcc in which a fourcc of 0 (no compression) returns the
\* data as they are.
compress_unci_fourcc_zero_stores(build, fourcc_code, data) ==
  IF fourcc_code = 0 THEN compressed_by("none", data)
  ELSE IF build.HAVE_ZLIB /\ fourcc_code = fourcc(<<"d", "e", "f", "l">>)
    THEN compressed_by("compress_deflate", data)
  ELSE IF build.HAVE_ZLIB /\ fourcc_code = fourcc(<<"z", "l", "i", "b">>)
    THEN compressed_by("compress_zlib", data)
  ELSE IF build.HAVE_BROTLI /\ fourcc_code = fourcc(<<"b", "r", "o", "t">>)
    THEN compressed_by("compress_brotli", data)
  ELSE unsupported_method

\* compress_unci_fourcc, in a build with the macros HAVE_ZLIB and
\* HAVE_BROTLI as build says: a case of the switch exists only when its
\* macro is set.
compress_unci_fourcc(build, fourcc_code, data) ==
  IF build.HAVE_ZLIB /\ fourcc_code = fourcc(<<"d", "e", "f", "l">>)
    THEN compressed_by("compress_deflate", data)
  ELSE IF build.HAVE_ZLIB /\ fourcc_code = fourcc(<<"z", "l", "i", "b">>)
    THEN compressed_by("compress_zlib", data)
  ELSE IF build.HAVE_BROTLI /\ fourcc_code = fourcc(<<"b", "r", "o", "t">>)
    THEN compressed_by("compress_brotli", data)
  ELSE unsupported_method

\* The builds of the library.
Builds == [HAVE_ZLIB : BOOLEAN, HAVE_BROTLI : BOOLEAN]

\* The values of the enum and some that are not (1 and 2 are commented out
\* in the header).
Methods == 0..6

\* The fourcc codes passed: those of the methods, and others.
FourccCodes ==
  {unci_compression_to_fourcc(method) : method \in Methods}
    \cup {1, fourcc(<<"d", "e", "f", "l">>) + 1,
          fourcc(<<"D", "E", "F", "L">>), fourcc(<<"g", "z", "i", "p">>),
          fourcc(<<"z", "s", "t", "d">>), fourcc(<<"b", "r", "o", "t">>) - 1}

RECURSIVE DataOfLength(_)
DataOfLength(n) ==
  IF n = 0 THEN {<<>>}
  ELSE {Append(d, b) : d \in DataOfLength(n - 1), b \in {0, 255}}

DataInputs == UNION {DataOfLength(n) : n \in 0..MaxData}

CompInit ==
  /\ comp_pc = "idle"
  /\ comp_call = <<>>
  /\ comp_result = <<>>

\* A call of unci_compression_to_fourcc.
UnciCompressionToFourcc(method) ==
  /\ comp_pc = "idle"
  /\ comp_pc' = "translated"
  /\ comp_call' = <<[method |-> method]>>
  /\ comp_result' = <<unci_compression_to_fourcc(method)>>
  /\ UNCHANGED notCOMP

\* A call of compress_unci_fourcc.
CompressUnciFourcc(build, fourcc_code, data) ==
  /\ comp_pc = "idle"
  /\ comp_pc' = "compressed"
  /\ comp_call' = <<[build |-> build, fourcc_code |-> fourcc_code,
                     data |-> data]>>
  /\ comp_result' = <<compress_unci_fourcc(build, fourcc_code, data)>>
  /\ UNCHANGED notCOMP

(***************************************************************************)
(* unc_encoder_component_interleave: the constructor.  An image is a       *)
(* record: colorspace, chroma, its components in index order (channel,     *)
(* component_type, bits per pixel, datatype) and bayer, <<>> or <<p>> with *)
(* p the Bayer pattern of the image (pattern_width, pattern_height, pixels *)
(* of component_index and component_gain).  A gain is an integer standing  *)
(* for a float.                                                            *)
(***************************************************************************)
\* The most components of a nonvisual image.
MaxComponents == 3

heif_uncompressed_component_type_monochrome == 0

heif_uncompressed_component_type_Cb == 2

heif_uncompressed_component_type_Cr == 3

heif_uncompressed_component_type_alpha == 7

heif_uncompressed_component_type_filter_array == 11

\* heif_channel_to_component_type: the component type of a channel.
heif_channel_to_component_type(ch) ==
  IF ch = "Y" THEN heif_uncompressed_component_type_Y
  ELSE IF ch = "Cb" THEN heif_uncompressed_component_type_Cb
  ELSE IF ch = "Cr" THEN heif_uncompressed_component_type_Cr
  ELSE IF ch = "R" THEN heif_uncompressed_component_type_red
  ELSE IF ch = "G" THEN heif_uncompressed_component_type_green
  ELSE IF ch = "B" THEN heif_uncompressed_component_type_blue
  ELSE IF ch = "Alpha" THEN heif_uncompressed_component_type_alpha
  ELSE heif_uncompressed_component_type_filter_array

\* to_unc_component_format: the component format of a datatype.
to_unc_component_format(datatype) ==
  IF datatype = "floating_point" THEN "component_format_float"
  ELSE IF datatype = "signed_integer" THEN "component_format_signed"
  ELSE "component_format_unsigned"

\* HeifPixelImage::has_channel.
has_channel(image, ch) ==
  \E i \in DOMAIN image.components : image.components[i].channel = ch

\* The component type the first loop gives component idx (counted from 0).
comp_type_of(image, idx) ==
  LET c == image.components[idx + 1]
  IN  IF image.colorspace = "nonvisual" THEN c.component_type
      ELSE IF c.channel = "Y" /\ ~has_channel(image, "Cb")
        THEN heif_uncompressed_component_type_monochrome
      ELSE heif_channel_to_component_type(c.channel)

\* Mutant: a Y channel keeps the type Y in an image without Cb.
m_components_of_Y_kept(image) ==
  [k \in 1..Len(image.components) |->
     LET c == image.components[k]
     IN  [component_idx |-> k - 1,
          channel |-> IF image.colorspace = "nonvisual" THEN "Y" ELSE c.channel,
          component_type |->
            IF image.colorspace = "nonvisual" THEN c.component_type
            ELSE heif_channel_to_component_type(c.channel),
          component_format |-> to_unc_component_format(c.datatype),
          bpp |-> c.bpp % 256,
          byte_aligned |-> (c.bpp % 256) % 8 = 0]]

\* m_components after the first loop of the constructor.
m_components_of(image) ==
  [k \in 1..Len(image.components) |->
     LET c == image.components[k]
     IN  [component_idx |-> k - 1,
          channel |-> IF image.colorspace = "nonvisual" THEN "Y" ELSE c.channel,
          component_type |-> comp_type_of(image, k - 1),
          component_format |-> to_unc_component_format(c.datatype),
          bpp |-> c.bpp % 256,
          byte_aligned |-> (c.bpp % 256) % 8 = 0]]

\* little_endian after the loop over m_components.
little_endian_of(comps) ==
  \E k \in DOMAIN comps : comps[k].byte_aligned /\ comps[k].bpp > 8

\* The sampling type set from the chroma format.
sampling_type_of(chroma) ==
  IF chroma = "420" THEN "sampling_mode_420"
  ELSE IF chroma = "422" THEN "sampling_mode_422"
  ELSE "sampling_mode_no_subsampling"

\* unique_types: the component types of the pattern pixels from pixel k
\* on that are not in seen, in order of first appearance.
RECURSIVE unique_types_from(_, _, _)
unique_types_from(pixels, k, seen) ==
  IF k > Len(pixels) THEN <<>>
  ELSE LET comp_type == pixels[k].component_index
       IN  IF comp_type \in seen
             THEN unique_types_from(pixels, k + 1, seen)
             ELSE <<comp_type>>
                    \o unique_types_from(pixels, k + 1, seen \cup {comp_type})

\* Mutant: the reference components in increasing order of their type.
RECURSIVE sorted_types(_)
sorted_types(types) ==
  IF types = {} THEN <<>>
  ELSE LET least == CHOOSE t \in types : \A u \in types : t <= u
       IN  <<least>> \o sorted_types(types \ {least})

unique_types_sorted(pixels) ==
  sorted_types({pixels[k].component_index : k \in DOMAIN pixels})

unique_types(pixels) == unique_types_from(pixels, 1, {})

\* type_to_cmpd_index[type] with box_index at first_index when the loop
\* over unique_types starts; box_index is a uint16_t.
type_to_cmpd_index(types, first_index, type) ==
  (first_index + (CHOOSE k \in DOMAIN types : types[k] = type) - 1) % 65536

\* The constructor: m_components, the components of m_cmpd, m_uncC,
\* m_cpat, <<>> or <<p>> with p the pattern of the cpat box, and the boxes
\* of the image's attachments: one splz, sbpm or snuc box per polarization
\* pattern, bad pixels map or NUC, in the image's order, each holding what
\* was set on it, and m_cloc, <<>> or <<l>> with l the chroma location.
\* box_index is a uint16_t.
unc_encoder_component_interleave(image) ==
  LET comps == m_components_of(image)
      data_cmpd == [k \in DOMAIN comps |->
                      [component_type |-> comps[k].component_type % 65536]]
      uncC_components ==
        [k \in DOMAIN comps |->
           [component_index |-> (k - 1) % 65536,
            component_bit_depth |-> comps[k].bpp,
            component_format |-> comps[k].component_format,
            component_align_size |-> 0]]
      box_index == Len(comps) % 65536
      has_bayer == image.bayer # <<>>
      types == IF has_bayer THEN unique_types(image.bayer[1].pixels) ELSE <<>>
  IN  [m_components |-> comps,
       m_cmpd |-> data_cmpd \o [k \in DOMAIN types |->
                                  [component_type |-> types[k]]],
       m_uncC |-> [components |-> uncC_components,
                   interleave_type |-> "interleave_mode_component",
                   components_little_endian |-> little_endian_of(comps),
                   block_size |-> 0,
                   sampling_type |-> sampling_type_of(image.chroma)],
       m_cpat |->
         IF has_bayer
           THEN << [pattern_width |-> image.bayer[1].pattern_width,
                    pattern_height |-> image.bayer[1].pattern_height,
                    pixels |->
                      [i \in DOMAIN image.bayer[1].pixels |->
                         [component_index |->
                            type_to_cmpd_index(
                              types, box_index,
                              image.bayer[1].pixels[i].component_index),
                          component_gain |->
                            image.bayer[1].pixels[i].component_gain]]] >>
           ELSE <<>>,
       m_splz |-> [k \in DOMAIN image.polarization |->
                     [pattern |-> image.polarization[k]]],
       m_sbpm |-> [k \in DOMAIN image.bad_pixels |->
                     [bad_pixels_map |-> image.bad_pixels[k]]],
       m_snuc |-> [k \in DOMAIN image.nuc |-> [nuc |-> image.nuc[k]]],
       m_cloc |-> [k \in DOMAIN image.chroma_location |->
                     [chroma_location |-> image.chroma_location[k]]]]

\* The images encoded.  The bit depths and the gains repeat an order.
DepthOrders ==
  { <<8>>, <<16>>, <<12>>, <<7, 16, 8>>, <<8, 10, 24, 32>>, <<9, 8>> }

GainOrders == { <<1>>, <<1, 2, 3>> }

Datatypes == {"unsigned_integer", "floating_point"}

Cycle(order, i) == order[((i - 1) % Len(order)) + 1]

\* The channels of the visual images, with colorspace and chroma format.
VisualLayouts ==
  { [colorspace |-> "monochrome", chroma |-> "monochrome", channels |-> <<"Y">>],
    [colorspace |-> "YCbCr", chroma |-> "444", channels |-> <<"Y", "Cb", "Cr">>],
    [colorspace |-> "YCbCr", chroma |-> "422", channels |-> <<"Y", "Cb", "Cr">>],
    [colorspace |-> "YCbCr", chroma |-> "420", channels |-> <<"Y", "Cb", "Cr">>],
    [colorspace |-> "RGB", chroma |-> "444", channels |-> <<"R", "G", "B">>],
    [colorspace |-> "RGB", chroma |-> "444",
     channels |-> <<"R", "G", "B", "Alpha">>],
    [colorspace |-> "filter_array", chroma |-> "monochrome",
     channels |-> <<"filter_array">>] }

\* The component types of the nonvisual images: n components that repeat
\* an order.
NonvisualOrders ==
  { << heif_uncompressed_component_type_filter_array >>,
    << heif_uncompressed_component_type_monochrome,
       heif_uncompressed_component_type_red,
       heif_uncompressed_component_type_Y >> }

\* The Bayer patterns set on an image: the component_index of a pixel holds
\* a component type.
BayerPatterns ==
  { [pattern_width |-> pw, pattern_height |-> ph,
     pixels |-> [i \in 1..(pw * ph) |->
                   [component_index |->
                      ComponentTypes[PatternPixels(order, pw, ph)[i] + 1],
                    component_gain |-> Cycle(gains, i)]]] :
      pw \in 1..MaxPattern, ph \in 1..MaxPattern, order \in PatternOrders,
      gains \in GainOrders }

BayerChoices == {<<>>} \cup {<<p>> : p \in BayerPatterns}

\* The attachments of the images encoded: none, one of each kind, and two
\* polarization patterns and two NUCs. chroma_location is <<>> for an image
\* without chroma location.
EncoderAttachments ==
  { [polarization |-> <<>>, bad_pixels |-> <<>>, nuc |-> <<>>,
     chroma_location |-> <<>>],
    [polarization |-> << [pattern_width |-> 1, pattern_height |-> 1,
                          component_indices |-> <<0>>, angles |-> <<45>>] >>,
     bad_pixels |-> << [component_indices |-> <<0>>, correction_applied |-> TRUE,
                        bad_pixels |-> << <<1, 2>> >>] >>,
     nuc |-> << [component_indices |-> <<0>>, nuc_is_applied |-> FALSE,
                 image_width |-> 1, image_height |-> 1,
                 nuc_gains |-> <<2>>, nuc_offsets |-> <<3>>] >>,
     chroma_location |-> <<1>>],
    [polarization |-> << [pattern_width |-> 1, pattern_height |-> 1,
                          component_indices |-> <<>>, angles |-> <<0>>],
                         [pattern_width |-> 2, pattern_height |-> 1,
                          component_indices |-> <<1>>, angles |-> <<0, 90>>] >>,
     bad_pixels |-> <<>>,
     nuc |-> << [component_indices |-> <<0>>, nuc_is_applied |-> TRUE,
                 image_width |-> 1, image_height |-> 1,
                 nuc_gains |-> <<1>>, nuc_offsets |-> <<0>>],
                [component_indices |-> <<1>>, nuc_is_applied |-> FALSE,
                 image_width |-> 1, image_height |-> 1,
                 nuc_gains |-> <<4>>, nuc_offsets |-> <<5>>] >>,
     chroma_location |-> <<>>] }

\* The attachments vary on the images of 8 bits without pattern or with a
\* pattern of one pixel; the other images have none.
AttachmentsWith(depths, bayer) ==
  IF depths = <<8>> /\ (bayer = <<>> \/ Len(bayer[1].pixels) = 1)
    THEN EncoderAttachments
    ELSE {a \in EncoderAttachments : a.polarization = <<>>}

EncoderImages ==
  UNION
    { { [colorspace |-> l.colorspace, chroma |-> l.chroma,
         components |->
           [k \in DOMAIN l.channels |->
              [channel |-> l.channels[k], component_type |-> 0,
               bpp |-> Cycle(depths, k), datatype |-> datatype]],
         bayer |-> bayer,
         polarization |-> att.polarization, bad_pixels |-> att.bad_pixels,
         nuc |-> att.nuc, chroma_location |-> att.chroma_location] :
          att \in AttachmentsWith(depths, bayer) } :
        l \in VisualLayouts, depths \in DepthOrders, datatype \in Datatypes,
        bayer \in BayerChoices }
  \cup
  UNION
    { { [colorspace |-> "nonvisual", chroma |-> "monochrome",
         components |->
           [k \in 1..n |->
              [channel |-> "Y", component_type |-> Cycle(types, k),
               bpp |-> Cycle(depths, k), datatype |-> datatype]],
         bayer |-> bayer,
         polarization |-> att.polarization, bad_pixels |-> att.bad_pixels,
         nuc |-> att.nuc, chroma_location |-> att.chroma_location] :
          att \in AttachmentsWith(depths, bayer) } :
        n \in 1..MaxComponents, types \in NonvisualOrders,
        depths \in DepthOrders, datatype \in Datatypes,
        bayer \in BayerChoices }

CtorInit ==
  /\ ctor_pc = "idle"
  /\ ctor_image = <<>>
  /\ ctor_enc = <<>>

\* The construction of an encoder for an image.
Construct(image) ==
  /\ ctor_pc = "idle"
  /\ ctor_pc' = "constructed"
  /\ ctor_image' = <<image>>
  /\ ctor_enc' = <<unc_encoder_component_interleave(image)>>
  /\ UNCHANGED notCTOR

(***************************************************************************)
(* The attachments of an image (heif_uncompressed.cc): its Bayer pattern   *)
(* (<<>> or <<p>>), and its lists of polarization patterns, sensor bad     *)
(* pixels maps and sensor NUCs.  An array argument is <<>> for nullptr and *)
(* <<a>> for a pointer to the array a.                                     *)
(***************************************************************************)
\* The most entries of the three lists of an image together.
MaxAttachments == 2

\* HeifPixelImage::set_bayer_pattern: the pattern replaces the one the
\* image has.
set_bayer_pattern(bayer, pattern) == <<pattern>>

\* HeifPixelImage::add_sensor_bad_pixels_map and add_sensor_nuc: the entry
\* is stored after the ones the image holds.
add_sensor_bad_pixels_map(maps, map) == Append(maps, map)

add_sensor_nuc(nucs, nuc) == Append(nucs, nuc)

\* The first n elements of the array a pointer argument points to.
Assign(pointer, n) == IF n = 0 THEN <<>> ELSE SubSeq(pointer[1], 1, n)

\* heif_image_set_bayer_pattern: the error returned.
set_bayer_pattern_error(image, pattern_width, pattern_height, patternPixels) ==
  IF image = <<>> \/ patternPixels = <<>>
    THEN "heif_error_null_pointer_argument"
  ELSE IF pattern_width = 0 \/ pattern_height = 0
    THEN "heif_error_Usage_error"
  ELSE "heif_error_success"

\* Mutant: the pattern is stored before the dimensions are tested.
heif_image_set_bayer_pattern_unchecked(bayer, image, pattern_width, pattern_height, patternPixels) ==
  IF image = <<>> \/ patternPixels = <<>> THEN bayer
  ELSE set_bayer_pattern(
         bayer,
         [pattern_width |-> pattern_width, pattern_height |-> pattern_height,
          pixels |-> Assign(patternPixels, pattern_width * pattern_height)])

\* heif_image_set_bayer_pattern: the Bayer pattern of the image after the
\* call.
heif_image_set_bayer_pattern(bayer, image, pattern_width, pattern_height, patternPixels) ==
  IF set_bayer_pattern_error(image, pattern_width, pattern_height,
                             patternPixels) # "heif_error_success"
    THEN bayer
    ELSE set_bayer_pattern(
           bayer,
           [pattern_width |-> pattern_width, pattern_height |-> pattern_height,
            pixels |-> Assign(patternPixels, pattern_width * pattern_height)])

\* heif_image_add_sensor_bad_pixels_map: the error returned.
add_sensor_bad_pixels_map_error(image, num_component_indices, component_indices, num_bad_rows, bad_rows, num_bad_columns, bad_columns, num_bad_pixels, bad_pixels) ==
  IF image = <<>> THEN "heif_error_null_pointer_argument"
  ELSE IF num_component_indices > 0 /\ component_indices = <<>>
    THEN "heif_error_null_pointer_argument"
  ELSE IF num_bad_rows > 0 /\ bad_rows = <<>>
    THEN "heif_error_null_pointer_argument"
  ELSE IF num_bad_columns > 0 /\ bad_columns = <<>>
    THEN "heif_error_null_pointer_argument"
  ELSE IF num_bad_pixels > 0 /\ bad_pixels = <<>>
    THEN "heif_error_null_pointer_argument"
  ELSE "heif_error_success"

\* heif_image_add_sensor_bad_pixels_map: the maps of the image after the
\* call.
heif_image_add_sensor_bad_pixels_map(maps, image, num_component_indices, component_indices, correction_applied, num_bad_rows, bad_rows, num_bad_columns, bad_columns, num_bad_pixels, bad_pixels) ==
  IF add_sensor_bad_pixels_map_error(
       image, num_component_indices, component_indices, num_bad_rows,
       bad_rows, num_bad_columns, bad_columns, num_bad_pixels, bad_pixels)
       # "heif_error_success"
    THEN maps
    ELSE add_sensor_bad_pixels_map(
           maps,
           [component_indices |-> Assign(component_indices,
                                         num_component_indices),
            correction_applied |-> correction_applied # 0,
            bad_rows |-> Assign(bad_rows, num_bad_rows),
            bad_columns |-> Assign(bad_columns, num_bad_columns),
            bad_pixels |-> Assign(bad_pixels, num_bad_pixels)])

\* heif_image_add_sensor_nuc: the error returned.
add_sensor_nuc_error(image, num_component_indices, component_indices, image_width, image_height, nuc_gains, nuc_offsets) ==
  IF image = <<>> \/ nuc_gains = <<>> \/ nuc_offsets = <<>>
    THEN "heif_error_null_pointer_argument"
  ELSE IF num_component_indices > 0 /\ component_indices = <<>>
    THEN "heif_error_null_pointer_argument"
  ELSE IF image_width = 0 \/ image_height = 0
    THEN "heif_error_Usage_error"
  ELSE "heif_error_success"

\* heif_image_add_sensor_nuc: the NUCs of the image after the call.
heif_image_add_sensor_nuc(nucs, image, num_component_indices, component_indices, nuc_is_applied, image_width, image_height, nuc_gains, nuc_offsets) ==
  IF add_sensor_nuc_error(image, num_component_indices, component_indices,
                          image_width, image_height, nuc_gains, nuc_offsets)
       # "heif_error_success"
    THEN nucs
    ELSE add_sensor_nuc(
           nucs,
           [component_indices |-> Assign(component_indices,
                                         num_component_indices),
            nuc_is_applied |-> nuc_is_applied # 0,
            image_width |-> image_width, image_height |-> image_height,
            nuc_gains |-> Assign(nuc_gains, image_width * image_height),
            nuc_offsets |-> Assign(nuc_offsets, image_width * image_height)])

\* The arguments of the calls.  A count and its array: no element and
\* nullptr, one element and nullptr, one element and an array.
CountedArrays(value) ==
  { [n |-> 0, p |-> <<>>], [n |-> 1, p |-> <<>>], [n |-> 1, p |-> <<<<value>>>>] }

BayerArguments ==
  [image_null : BOOLEAN, pattern_width : 0..1, pattern_height : 0..1,
   patternPixels : {<<>>, << << [component_index |-> 4, component_gain |-> 1] >> >>,
                    << << [component_index |-> 5, component_gain |-> 2] >> >>}]

PolarizationArguments ==
  { a \in AddArguments :
      /\ a.component_indices \in {<<>>, << <<0>> >>}
      /\ ValidArguments(a) }

BadPixelsArguments ==
  [image_null : BOOLEAN, component_indices : CountedArrays(0),
   correction_applied : {0, 2}, bad_rows : CountedArrays(3),
   bad_columns : {[n |-> 0, p |-> <<>>], [n |-> 1, p |-> <<>>]},
   bad_pixels : {[n |-> 0, p |-> <<>>], [n |-> 1, p |-> <<>>]}]

NucArguments ==
  [image_null : BOOLEAN, component_indices : CountedArrays(0),
   nuc_is_applied : {0, 1}, image_width : 0..1, image_height : 0..1,
   nuc_gains : {<<>>, << <<10>> >>}, nuc_offsets : {<<>>, << <<20>> >>}]

NoAttachments ==
  [bayer |-> <<>>, polarization |-> <<>>, bad_pixels |-> <<>>, nuc |-> <<>>]

NoCall == [function |-> "none", error |-> ""]

AttInit ==
  /\ att_image = NoAttachments
  /\ att_before = NoAttachments
  /\ att_call = NoCall

\* The entries of the three lists of the image.
NumAttachments ==
  Len(att_image.polarization) + Len(att_image.bad_pixels) + Len(att_image.nuc)

ImagePointer(image_null) == IF image_null THEN <<>> ELSE <<att_image>>

\* A call of heif_image_set_bayer_pattern.
SetBayerPattern(a) ==
  /\ att_before' = att_image
  /\ att_image' =
       [att_image EXCEPT !.bayer =
          heif_image_set_bayer_pattern(
            att_image.bayer, ImagePointer(a.image_null), a.pattern_width,
            a.pattern_height, a.patternPixels)]
  /\ att_call' =
       [function |-> "heif_image_set_bayer_pattern",
        error |-> set_bayer_pattern_error(
                    ImagePointer(a.image_null), a.pattern_width,
                    a.pattern_height, a.patternPixels)]
  /\ UNCHANGED notATT

\* A call of heif_image_add_polarization_pattern.
AddPolarization(a) ==
  LET angles == IF a.polarization_angles_null THEN <<>> ELSE <<0>>
  IN  /\ att_before' = att_image
      /\ att_image' =
           [att_image EXCEPT !.polarization =
              heif_image_add_polarization_pattern(
                att_image.polarization, ImagePointer(a.image_null),
                a.num_component_indices, a.component_indices,
                a.pattern_width, a.pattern_height, angles)]
      /\ att_call' =
           [function |-> "heif_image_add_polarization_pattern",
            error |-> add_polarization_pattern_error(
                        ImagePointer(a.image_null), a.num_component_indices,
                        a.component_indices, a.pattern_width,
                        a.pattern_height, angles)]
      /\ UNCHANGED notATT

\* A call of heif_image_add_sensor_bad_pixels_map.
AddSensorBadPixelsMap(a) ==
  /\ att_before' = att_image
  /\ att_image' =
       [att_image EXCEPT !.bad_pixels =
          heif_image_add_sensor_bad_pixels_map(
            att_image.bad_pixels, ImagePointer(a.image_null),
            a.component_indices.n, a.component_indices.p,
            a.correction_applied, a.bad_rows.n, a.bad_rows.p,
            a.bad_columns.n, a.bad_columns.p, a.bad_pixels.n,
            a.bad_pixels.p)]
  /\ att_call' =
       [function |-> "heif_image_add_sensor_bad_pixels_map",
        error |-> add_sensor_bad_pixels_map_error(
                    ImagePointer(a.image_null), a.component_indices.n,
                    a.component_indices.p, a.bad_rows.n, a.bad_rows.p,
                    a.bad_columns.n, a.bad_columns.p, a.bad_pixels.n,
                    a.bad_pixels.p)]
  /\ UNCHANGED notATT

\* A call of heif_image_add_sensor_nuc.
AddSensorNuc(a) ==
  /\ att_before' = att_image
  /\ att_image' =
       [att_image EXCEPT !.nuc =
          heif_image_add_sensor_nuc(
            att_image.nuc, ImagePointer(a.image_null),
            a.component_indices.n, a.component_indices.p, a.nuc_is_applied,
            a.image_width, a.image_height, a.nuc_gains, a.nuc_offsets)]
  /\ att_call' =
       [function |-> "heif_image_add_sensor_nuc",
        error |-> add_sensor_nuc_error(
                    ImagePointer(a.image_null), a.component_indices.n,
                    a.component_indices.p, a.image_width, a.image_height,
                    a.nuc_gains, a.nuc_offsets)]
  /\ UNCHANGED notATT

(***************************************************************************)
(* The descriptor boxes cmpd, uncC, cmpC, icef, cloc, splz and snuc as     *)
(* tests/uncompressed_box.cc reads and writes them.  A byte is a number in *)
(* 0 .. 255 and a byte sequence is a std::vector<uint8_t>.  An unsigned    *)
(* field of more than two bytes is held as its Value: its base-256 digits, *)
(* most significant first, without leading zeros (so 2563 is <<10, 3>> and *)
(* 0 is <<>>); fields of one or two bytes are numbers.                     *)
(***************************************************************************)
\* The most units of an icef box and the most components of a cmpd box
\* explored.
MaxUnits == 2

\* The value of the big-endian field held in bytes.
RECURSIVE Value(_)
Value(bytes) ==
  IF bytes # <<>> /\ bytes[1] = 0 THEN Value(Tail(bytes)) ELSE bytes

\* The n bytes of the big-endian field that holds v.
Field(v, n) == [i \in 1..(n - Len(v)) |-> 0] \o v

\* The Value of a number.
RECURSIVE Num(_)
Num(k) == IF k = 0 THEN <<>> ELSE Append(Num(k \div 256), k % 256)

\* The number of a Value below 2^31.
RECURSIVE ToNat(_)
ToNat(v) == IF v = <<>> THEN 0 ELSE ToNat(SubSeq(v, 1, Len(v) - 1)) * 256 + v[Len(v)]

\* The carry into digit i of x + y, two fields of one length.
RECURSIVE CarryInto(_, _, _)
CarryInto(x, y, i) ==
  IF i = Len(x) THEN 0
  ELSE (x[i + 1] + y[i + 1] + CarryInto(x, y, i + 1)) \div 256

\* a + b on Values.
Plus(a, b) ==
  LET n == (IF Len(a) > Len(b) THEN Len(a) ELSE Len(b)) + 1
      x == Field(a, n)
      y == Field(b, n)
  IN  Value([i \in 1..n |-> (x[i] + y[i] + CarryInto(x, y, i)) % 256])

\* a <= b on Values.
RECURSIVE LexLe(_, _)
LexLe(a, b) ==
  a = <<>> \/ a[1] < b[1] \/ (a[1] = b[1] /\ LexLe(Tail(a), Tail(b)))

AtMost(a, b) == Len(a) < Len(b) \/ (Len(a) = Len(b) /\ LexLe(a, b))

\* The n bytes a BitstreamRange reads at position pos (bytes before it
\* already read): those of data, and 0 for each byte past its end.
read(data, pos, n) ==
  [i \in 1..n |-> IF pos + i <= Len(data) THEN data[pos + i] ELSE 0]

\* BitstreamRange::read8 / read16 / read32 at position pos: big-endian.
read8(data, pos) == read(data, pos, 1)[1]

read16(data, pos) == read(data, pos, 2)[1] * 256 + read(data, pos, 2)[2]

read32(data, pos) == Value(read(data, pos, 4))

\* StreamWriter::write8 / write16 / write32: the bytes appended.
write8(v) == <<v>>

\* Mutant: the low byte first.
write16_little_endian(v) == <<v % 256, v \div 256>>

write16(v) == <<v \div 256, v % 256>>

write32(v) == Field(v, 4)

\* The four bytes of a box type or another four-character code.
fourcc_bytes(id) == <<Ord(id[1]), Ord(id[2]), Ord(id[3]), Ord(id[4])>>

\* The types of the boxes modelled; all but cmpd are FullBoxes.
BoxTypes ==
  { <<"c", "m", "p", "d">>, <<"u", "n", "c", "C">>, <<"c", "m", "p", "C">>,
    <<"i", "c", "e", "f">>, <<"c", "l", "o", "c">>, <<"s", "p", "l", "z">>,
    <<"s", "n", "u", "c">> }

is_full_box(type) == type # <<"c", "m", "p", "d">>

\* Error: code, sub-code and message (a sequence of its parts).
Error(error_code, sub_error_code, message) ==
  [error_code |-> error_code, sub_error_code |-> sub_error_code,
   message |-> message]

Error_Ok == Error("heif_error_Ok", "heif_suberror_Unspecified", <<>>)

\* What a parse returns: the error and, without error, the box.
Parsed(box) == [error |-> Error_Ok, box |-> <<box>>]

Failed_parse(error) == [error |-> error, box |-> <<>>]

\* FullBox::parse_full_box_header followed by the test of the version every
\* FullBox parse but that of uncC starts with.
unsupported_version(type, version) ==
  Error("heif_error_Unsupported_feature",
        "heif_suberror_Unsupported_data_version",
        <<type, " box data version ", version, " is not implemented yet">>)

\* Box::prepend_header: the box size and type, and for a FullBox version 0
\* and flags 0, before the payload written.
prepend_header(type, payload) ==
  LET header_size == IF is_full_box(type) THEN 12 ELSE 8
  IN  write32(Num(header_size + Len(payload))) \o fourcc_bytes(type)
        \o (IF is_full_box(type) THEN <<0, 0, 0, 0>> ELSE <<>>) \o payload

(***************************************************************************)
(* cmpC: compression_type and compressed_unit_type.                        *)
(***************************************************************************)
Box_cmpC_parse(payload) ==
  Parsed([type |-> <<"c", "m", "p", "C">>,
          compression_type |-> read32(payload, 0),
          compressed_unit_type |-> read8(payload, 4)])

Box_cmpC_write(box) ==
  prepend_header(box.type,
    write32(box.compression_type) \o write8(box.compressed_unit_type))

(***************************************************************************)
(* cloc: chroma_location, 0 .. 6.                                          *)
(***************************************************************************)
Box_cloc_parse(payload) ==
  IF read8(payload, 0) > 6
    THEN Failed_parse(Error("heif_error_Invalid_input",
                            "heif_suberror_Invalid_parameter_value", <<>>))
    ELSE Parsed([type |-> <<"c", "l", "o", "c">>,
                 chroma_location |-> read8(payload, 0)])

Box_cloc_write(box) == prepend_header(box.type, write8(box.chroma_location))

(***************************************************************************)
(* cmpd: the component types, a custom one (0x8000 and above) with its     *)
(* URI, a NUL-terminated string.                                           *)
(***************************************************************************)
\* BitstreamRange::read_string: the bytes up to the NUL at or after pos.
RECURSIVE read_string(_, _)
read_string(data, pos) ==
  IF read8(data, pos) = 0 THEN <<>>
  ELSE <<read8(data, pos)>> \o read_string(data, pos + 1)

\* The components from position pos, n of them to read.
RECURSIVE cmpd_components(_, _, _)
cmpd_components(payload, pos, n) ==
  IF n = 0 THEN <<>>
  ELSE LET component_type == read16(payload, pos)
           uri == IF component_type >= 32768
                    THEN read_string(payload, pos + 2) ELSE <<>>
           next == IF component_type >= 32768
                     THEN pos + 2 + Len(uri) + 1 ELSE pos + 2
       IN  << [component_type |-> component_type,
               component_type_uri |-> uri] >>
             \o cmpd_components(payload, next, n - 1)

Box_cmpd_parse(payload) ==
  Parsed([type |-> <<"c", "m", "p", "d">>,
          components |-> cmpd_components(payload, 4,
                                         ToNat(read32(payload, 0)))])

RECURSIVE cmpd_component_bytes(_)
cmpd_component_bytes(components) ==
  IF components = <<>> THEN <<>>
  ELSE LET c == Head(components)
       IN  write16(c.component_type)
             \o (IF c.component_type >= 32768
                   THEN c.component_type_uri \o <<0>> ELSE <<>>)
             \o cmpd_component_bytes(Tail(components))

Box_cmpd_write(box) ==
  prepend_header(box.type,
    write32(Num(Len(box.components))) \o cmpd_component_bytes(box.components))

(***************************************************************************)
(* icef: the offset and size of every compressed unit.  The header byte    *)
(* holds the code of the offset field in its bits 7..5 and the code of the *)
(* size field in its bits 4..2.                                            *)
(***************************************************************************)
\* Bytes of an offset field: none for code 0 (the unit starts where the one
\* before it ends), else 2, 3, 4 or 8.
unit_offset_bytes(unit_offset_code) ==
  CASE unit_offset_code = 0 -> 0
    [] unit_offset_code = 1 -> 2
    [] unit_offset_code = 2 -> 3
    [] unit_offset_code = 3 -> 4
    [] unit_offset_code = 4 -> 8

\* Bytes of a size field: 1, 2, 3, 4 or 8.
unit_size_bytes(unit_size_code) ==
  CASE unit_size_code = 0 -> 1
    [] unit_size_code = 1 -> 2
    [] unit_size_code = 2 -> 3
    [] unit_size_code = 3 -> 4
    [] unit_size_code = 4 -> 8

\* Mutant: the two codes taken from each other's bits.
icef_codes_swapped(codes) ==
  [unit_offset_code |-> (codes \div 4) % 8, unit_size_code |-> codes \div 32]

\* The two codes of the header byte.
icef_codes(codes) ==
  [unit_offset_code |-> codes \div 32, unit_size_code |-> (codes \div 4) % 8]

\* The units from position pos, n of them to read, implied_offset the end
\* of the unit before.
RECURSIVE icef_units(_, _, _, _, _, _)
icef_units(payload, pos, n, offset_bytes, size_bytes, implied_offset) ==
  IF n = 0 THEN <<>>
  ELSE LET unit_offset ==
             IF offset_bytes = 0 THEN implied_offset
             ELSE Value(read(payload, pos, offset_bytes))
           unit_size == Value(read(payload, pos + offset_bytes, size_bytes))
       IN  << [unit_offset |-> unit_offset, unit_size |-> unit_size] >>
             \o icef_units(payload, pos + offset_bytes + size_bytes, n - 1,
                           offset_bytes, size_bytes,
                           Plus(implied_offset, unit_size))

Box_icef_parse(payload) ==
  LET c == icef_codes(read8(payload, 0))
  IN  Parsed([type |-> <<"i", "c", "e", "f">>,
              units |-> icef_units(payload, 5, ToNat(read32(payload, 1)),
                                   unit_offset_bytes(c.unit_offset_code),
                                   unit_size_bytes(c.unit_size_code), <<>>)])

\* The least code whose offset field holds the offset (never 0).
get_required_offset_code(offset) ==
  IF Len(offset) <= 2 THEN 1
  ELSE IF Len(offset) <= 3 THEN 2
  ELSE IF Len(offset) <= 4 THEN 3
  ELSE 4

\* The least code whose size field holds the size.
get_required_size_code(size) ==
  IF Len(size) <= 1 THEN 0
  ELSE IF Len(size) <= 2 THEN 1
  ELSE IF Len(size) <= 3 THEN 2
  ELSE IF Len(size) <= 4 THEN 3
  ELSE 4

\* Every unit from i on starts where the one before it ends.
RECURSIVE can_use_implied_offsets(_, _, _)
can_use_implied_offsets(units, i, implied_offset) ==
  \/ i > Len(units)
  \/ /\ units[i].unit_offset = implied_offset
     /\ can_use_implied_offsets(units, i + 1,
                                Plus(implied_offset, units[i].unit_size))

\* The greatest of a set of codes, least when the set is empty.
MaxCode(codes, least) ==
  IF codes = {} THEN least ELSE CHOOSE c \in codes : \A d \in codes : d <= c

\* The codes Box_icef::write puts in the header: the narrowest fields that
\* hold every offset and every size, no offset field when the offsets are
\* implied.
icef_write_codes(units) ==
  [unit_offset_code |->
     IF can_use_implied_offsets(units, 1, <<>>) THEN 0
     ELSE MaxCode({ get_required_offset_code(units[i].unit_offset) :
                    i \in DOMAIN units }, 1),
   unit_size_code |->
     MaxCode({ get_required_size_code(units[i].unit_size) :
               i \in DOMAIN units }, 0)]

RECURSIVE icef_unit_bytes(_, _, _)
icef_unit_bytes(units, offset_bytes, size_bytes) ==
  IF units = <<>> THEN <<>>
  ELSE (IF offset_bytes = 0 THEN <<>>
        ELSE Field(Head(units).unit_offset, offset_bytes))
         \o Field(Head(units).unit_size, size_bytes)
         \o icef_unit_bytes(Tail(units), offset_bytes, size_bytes)

Box_icef_write(box) ==
  LET c == icef_write_codes(box.units)
  IN  prepend_header(box.type,
        write8(c.unit_offset_code * 32 + c.unit_size_code * 4)
          \o write32(Num(Len(box.units)))
          \o icef_unit_bytes(box.units,
                             unit_offset_bytes(c.unit_offset_code),
                             unit_size_bytes(c.unit_size_code)))

(***************************************************************************)
(* uncC: profile, component layout entries and the layout of the image.    *)
(* The number of tile columns and rows is stored less one.                 *)
(***************************************************************************)
\* The security limits a parse is given: the most tiles of an image, 0 for
\* no limit.
heif_get_global_security_limits == [max_number_of_tiles |-> 4096 * 4096]

heif_get_disabled_security_limits == [max_number_of_tiles |-> 0]

Limits == {heif_get_global_security_limits, heif_get_disabled_security_limits}

\* cols * rows is more than max_number_of_tiles (cols, rows >= 1).
exceeds_number_of_tiles(cols, rows, max_number_of_tiles) ==
  \/ ~AtMost(cols, Num(max_number_of_tiles))
  \/ ~AtMost(rows, Num(max_number_of_tiles))
  \/ ToNat(cols) > max_number_of_tiles \div ToNat(rows)

\* The component entries from position pos, n of them to read.
RECURSIVE uncC_components(_, _, _)
uncC_components(payload, pos, n) ==
  IF n = 0 THEN <<>>
  ELSE << [component_index |-> read16(payload, pos),
           component_bit_depth |-> read8(payload, pos + 2) + 1,
           component_format |-> read8(payload, pos + 3),
           component_align_size |-> read8(payload, pos + 4)] >>
         \o uncC_components(payload, pos + 5, n - 1)

\* Mutant: the tile counts as the fields hold them.
uncC_tile_count_as_stored(minus_one) == minus_one

\* num_tile_cols / num_tile_rows from the field read.
uncC_tile_count(minus_one) == Plus(minus_one, <<1>>)

Box_uncC_parse(payload, limits) ==
  LET n     == ToNat(read32(payload, 4))
      pos   == 8 + 5 * n
      flags == read8(payload, pos + 3)
      num_tile_cols_minus_one == read32(payload, pos + 16)
      num_tile_rows_minus_one == read32(payload, pos + 20)
      cols  == uncC_tile_count(num_tile_cols_minus_one)
      rows  == uncC_tile_count(num_tile_rows_minus_one)
  IN  IF /\ limits.max_number_of_tiles # 0
         /\ exceeds_number_of_tiles(Plus(num_tile_cols_minus_one, <<1>>),
                                    Plus(num_tile_rows_minus_one, <<1>>),
                                    limits.max_number_of_tiles)
        THEN Failed_parse(Error("heif_error_Memory_allocation_error",
                                "heif_suberror_Security_limit_exceeded",
                                <<>>))
      ELSE IF Len(Plus(num_tile_cols_minus_one, <<1>>)) > 4
              \/ Len(Plus(num_tile_rows_minus_one, <<1>>)) > 4
        THEN Failed_parse(Error("heif_error_Invalid_input",
                                "heif_suberror_Invalid_parameter_value",
                                <<>>))
      ELSE Parsed([type |-> <<"u", "n", "c", "C">>,
                   profile |-> read32(payload, 0),
                   components |-> uncC_components(payload, 8, n),
                   sampling_type |-> read8(payload, pos),
                   interleave_type |-> read8(payload, pos + 1),
                   block_size |-> read8(payload, pos + 2),
                   components_little_endian |-> (flags \div 128) % 2 = 1,
                   block_pad_lsb |-> (flags \div 64) % 2 = 1,
                   block_little_endian |-> (flags \div 32) % 2 = 1,
                   block_reversed |-> (flags \div 16) % 2 = 1,
                   pad_unknown |-> (flags \div 8) % 2 = 1,
                   pixel_size |-> read32(payload, pos + 4),
                   row_align_size |-> read32(payload, pos + 8),
                   tile_align_size |-> read32(payload, pos + 12),
                   num_tile_cols |-> cols,
                   num_tile_rows |-> rows])

RECURSIVE uncC_component_bytes(_)
uncC_component_bytes(components) ==
  IF components = <<>> THEN <<>>
  ELSE LET c == Head(components)
       IN  write16(c.component_index)
             \o write8(c.component_bit_depth - 1)
             \o write8(c.component_format)
             \o write8(c.component_align_size)
             \o uncC_component_bytes(Tail(components))

\* v - 1 on a Value v >= 1.
RECURSIVE Pred(_)
Pred(v) ==
  IF v[Len(v)] > 0
    THEN Value(SubSeq(v, 1, Len(v) - 1) \o <<v[Len(v)] - 1>>)
    ELSE Value(Pred(SubSeq(v, 1, Len(v) - 1)) \o <<255>>)

Flag(b, weight) == IF b THEN weight ELSE 0

Box_uncC_write(box) ==
  prepend_header(box.type,
    write32(box.profile)
      \o write32(Num(Len(box.components)))
      \o uncC_component_bytes(box.components)
      \o write8(box.sampling_type)
      \o write8(box.interleave_type)
      \o write8(box.block_size)
      \o write8(Flag(box.components_little_endian, 128)
                + Flag(box.block_pad_lsb, 64)
                + Flag(box.block_little_endian, 32)
                + Flag(box.block_reversed, 16)
                + Flag(box.pad_unknown, 8))
      \o write32(box.pixel_size)
      \o write32(box.row_align_size)
      \o write32(box.tile_align_size)
      \o write32(Pred(box.num_tile_cols))
      \o write32(Pred(box.num_tile_rows)))

(***************************************************************************)
(* splz and snuc: the components they apply to, the dimensions, and one    *)
(* 32-bit float (held as the Value of its bits) per position.              *)
(***************************************************************************)
\* n 32-bit fields from position pos.
RECURSIVE read32s(_, _, _)
read32s(payload, pos, n) ==
  IF n = 0 THEN <<>>
  ELSE <<read32(payload, pos)>> \o read32s(payload, pos + 4, n - 1)

RECURSIVE write32s(_)
write32s(values) ==
  IF values = <<>> THEN <<>>
  ELSE write32(Head(values)) \o write32s(Tail(values))

Box_splz_parse(payload) ==
  LET n   == ToNat(read32(payload, 0))
      pos == 4 + 4 * n
      pattern_width  == read16(payload, pos)
      pattern_height == read16(payload, pos + 2)
  IN  Parsed([type |-> <<"s", "p", "l", "z">>,
              component_indices |-> read32s(payload, 4, n),
              pattern_width |-> pattern_width,
              pattern_height |-> pattern_height,
              polarization_angles |->
                read32s(payload, pos + 4, pattern_width * pattern_height)])

Box_splz_write(box) ==
  prepend_header(box.type,
    write32(Num(Len(box.component_indices)))
      \o write32s(box.component_indices)
      \o write16(box.pattern_width)
      \o write16(box.pattern_height)
      \o write32s(box.polarization_angles))

Box_snuc_parse(payload) ==
  LET n   == ToNat(read32(payload, 0))
      pos == 4 + 4 * n
      image_width  == read32(payload, pos + 1)
      image_height == read32(payload, pos + 5)
      num_pixels   == ToNat(image_width) * ToNat(image_height)
  IN  Parsed([type |-> <<"s", "n", "u", "c">>,
              component_indices |-> read32s(payload, 4, n),
              nuc_is_applied |-> (read8(payload, pos) \div 128) % 2 = 1,
              image_width |-> image_width,
              image_height |-> image_height,
              nuc_gains |-> read32s(payload, pos + 9, num_pixels),
              nuc_offsets |->
                read32s(payload, pos + 9 + 4 * num_pixels, num_pixels)])

Box_snuc_write(box) ==
  prepend_header(box.type,
    write32(Num(Len(box.component_indices)))
      \o write32s(box.component_indices)
      \o write8(Flag(box.nuc_is_applied, 128))
      \o write32(box.image_width)
      \o write32(box.image_height)
      \o write32s(box.nuc_gains)
      \o write32s(box.nuc_offsets))

(***************************************************************************)
(* Box::read and Box::write.                                               *)
(***************************************************************************)
\* The type whose four bytes follow the size.
box_type(data) ==
  CHOOSE type \in BoxTypes : fourcc_bytes(type) = SubSeq(data, 5, 8)

\* Mutant: a version that is not 0 is read as version 0.
version_error_none(type, version) == Error_Ok

\* The error of the version test of the FullBoxes that know version 0 only.
version_error(type, version) ==
  IF type \in { <<"c", "m", "p", "C">>, <<"i", "c", "e", "f">>,
                <<"c", "l", "o", "c">>, <<"s", "p", "l", "z">>,
                <<"s", "n", "u", "c">> } /\ version # 0
    THEN unsupported_version(type, version)
    ELSE Error_Ok

\* Box::read: the header read, the box of its type made and its parse run
\* on the bytes after the header.
Box_read(data, limits) ==
  LET type    == box_type(data)
      payload == SubSeq(data, IF is_full_box(type) THEN 13 ELSE 9, Len(data))
      version == IF is_full_box(type) THEN read8(data, 8) ELSE 0
  IN  IF version_error(type, version) # Error_Ok
        THEN Failed_parse(version_error(type, version))
      ELSE CASE type = <<"c", "m", "p", "d">> -> Box_cmpd_parse(payload)
             [] type = <<"u", "n", "c", "C">> -> Box_uncC_parse(payload, limits)
             [] type = <<"c", "m", "p", "C">> -> Box_cmpC_parse(payload)
             [] type = <<"i", "c", "e", "f">> -> Box_icef_parse(payload)
             [] type = <<"c", "l", "o", "c">> -> Box_cloc_parse(payload)
             [] type = <<"s", "p", "l", "z">> -> Box_splz_parse(payload)
             [] type = <<"s", "n", "u", "c">> -> Box_snuc_parse(payload)

\* Box::write of the box's class.
Box_write(box) ==
  CASE box.type = <<"c", "m", "p", "d">> -> Box_cmpd_write(box)
    [] box.type = <<"u", "n", "c", "C">> -> Box_uncC_write(box)
    [] box.type = <<"c", "m", "p", "C">> -> Box_cmpC_write(box)
    [] box.type = <<"i", "c", "e", "f">> -> Box_icef_write(box)
    [] box.type = <<"c", "l", "o", "c">> -> Box_cloc_write(box)
    [] box.type = <<"s", "p", "l", "z">> -> Box_splz_write(box)
    [] box.type = <<"s", "n", "u", "c">> -> Box_snuc_write(box)

(***************************************************************************)
(* The byte sequences and boxes explored: those of the test cases, and     *)
(* those they become with other values in their fields.                    *)
(***************************************************************************)
\* data with the bytes from position pos + 1 on replaced by bytes.
Patch(data, pos, bytes) ==
  [i \in DOMAIN data |->
     IF i > pos /\ i <= pos + Len(bytes) THEN bytes[i - pos] ELSE data[i]]

\* TEST_CASE cmpC_defl: its byteArray.
cmpC_defl ==
  <<0, 0, 0, 17>> \o fourcc_bytes(<<"c", "m", "p", "C">>) \o <<0, 0, 0, 0>>
    \o fourcc_bytes(<<"d", "e", "f", "l">>) \o <<0>>

\* TEST_CASE icef_24_8_bit, icef_0_16_bit, icef_32bit, icef_uint64: their
\* byteArrays.
icef_24_8_bit ==
  <<0, 0, 0, 25>> \o fourcc_bytes(<<"i", "c", "e", "f">>) \o <<0, 0, 0, 0>>
    \o <<64>> \o <<0, 0, 0, 2>> \o <<0, 10, 3, 3>> \o <<2, 3, 10, 7>>

icef_0_16_bit ==
  <<0, 0, 0, 21>> \o fourcc_bytes(<<"i", "c", "e", "f">>) \o <<0, 0, 0, 0>>
    \o <<4>> \o <<0, 0, 0, 2>> \o <<64, 3>> \o <<10, 7>>

icef_32bit ==
  <<0, 0, 0, 33>> \o fourcc_bytes(<<"i", "c", "e", "f">>) \o <<0, 0, 0, 0>>
    \o <<108>> \o <<0, 0, 0, 2>>
    \o <<0, 0, 3, 4>> \o <<1, 1, 2, 3>> \o <<1, 2, 3, 10>> \o <<0, 4, 5, 7>>

icef_uint64 ==
  <<0, 0, 0, 49>> \o fourcc_bytes(<<"i", "c", "e", "f">>) \o <<0, 0, 0, 0>>
    \o <<144>> \o <<0, 0, 0, 2>>
    \o <<0, 0, 0, 1, 0, 0, 10, 3>> \o <<0, 0, 0, 2, 0, 1, 2, 3>>
    \o <<0, 0, 0, 2, 0, 2, 3, 10>> \o <<0, 0, 0, 3, 0, 4, 5, 7>>

\* TEST_CASE uncC_parse: its byteArray.
uncC_parse ==
  <<0, 0, 0, 64>> \o fourcc_bytes(<<"u", "n", "c", "C">>) \o <<0, 0, 0, 0>>
    \o fourcc_bytes(<<"r", "g", "b", "a">>) \o <<0, 0, 0, 4>>
    \o <<0, 0, 7, 0, 0>> \o <<0, 1, 7, 0, 0>> \o <<0, 2, 7, 0, 0>>
    \o <<0, 3, 7, 0, 0>>
    \o <<0, 1, 0, 0>> \o <<0, 0, 0, 0>> \o <<0, 0, 0, 0>> \o <<0, 0, 0, 0>>
    \o <<0, 0, 0, 1>> \o <<0, 0, 0, 2>>

\* TEST_CASE cloc, splz, snuc: the bytes expected, and TEST_CASE cmpd_multi.
cloc_expected ==
  <<0, 0, 0, 13>> \o fourcc_bytes(<<"c", "l", "o", "c">>) \o <<0, 0, 0, 0>>
    \o <<2>>

splz_expected ==
  <<0, 0, 0, 36>> \o fourcc_bytes(<<"s", "p", "l", "z">>) \o <<0, 0, 0, 0>>
    \o <<0, 0, 0, 2>> \o <<0, 0, 0, 0>> \o <<0, 0, 0, 1>>
    \o <<0, 2>> \o <<0, 1>> \o <<66, 52, 0, 0>> \o <<66, 180, 0, 0>>

snuc_expected ==
  <<0, 0, 0, 45>> \o fourcc_bytes(<<"s", "n", "u", "c">>) \o <<0, 0, 0, 0>>
    \o <<0, 0, 0, 1>> \o <<0, 0, 0, 0>> \o <<128>>
    \o <<0, 0, 0, 2>> \o <<0, 0, 0, 1>>
    \o <<63, 128, 0, 0>> \o <<64, 0, 0, 0>> \o <<0, 0, 0, 0>>
    \o <<64, 64, 0, 0>>

cmpd_multi_expected ==
  <<0, 0, 0, 18>> \o fourcc_bytes(<<"c", "m", "p", "d">>) \o <<0, 0, 0, 3>>
    \o <<0, 4>> \o <<0, 5>> \o <<0, 6>>

\* The versions a FullBox is given.
Versions == {0, 1, 2, 255}

\* The values of the offset and size fields explored, of 1, 2, 3, 4 and 5
\* bytes, and those given to a field of w bytes: one of one byte and one
\* that needs the field's width (5 bytes in a 64-bit field).
FieldValues ==
  {<<3>>, <<10, 3>>, <<2, 3, 10>>, <<1, 2, 3, 10>>, <<1, 0, 0, 10, 3>>}

FieldChoices(w) ==
  {v \in FieldValues : Len(v) = 1 \/ Len(v) = (IF w = 8 THEN 5 ELSE w)}

\* The 32-bit floats explored: 0.0, 1.0, 45.0, and the value that stands for
\* no filter.
Floats == {<<>>, <<63, 128, 0, 0>>, <<66, 52, 0, 0>>, <<255, 255, 255, 255>>}

\* The tile counts less one explored: 0, 1, 2, 0x7FFF, 0xFFFFFFFE and
\* 0xFFFFFFFF.
TileFields ==
  {<<>>, <<1>>, <<2>>, <<127, 255>>, <<255, 255, 255, 254>>,
   <<255, 255, 255, 255>>}

\* The fields of n units, offset_bytes and size_bytes wide.
RECURSIVE UnitFields(_, _, _)
UnitFields(n, offset_bytes, size_bytes) ==
  IF n = 0 THEN {<<>>}
  ELSE { Field(o, offset_bytes) \o Field(s, size_bytes) \o rest :
           o \in IF offset_bytes = 0 THEN {<<>>}
                 ELSE FieldChoices(offset_bytes),
           s \in FieldChoices(size_bytes),
           rest \in UnitFields(n - 1, offset_bytes, size_bytes) }

\* An icef box of version 0 with the header byte and the fields of its units
\* after the count.
IcefWire(header, n, fields) ==
  write32(Num(17 + Len(fields))) \o fourcc_bytes(<<"i", "c", "e", "f">>)
    \o <<0, 0, 0, 0>> \o <<header>> \o write32(Num(n)) \o fields

\* Two units of 3 bytes, at 0 and 3, with offset fields.
ContiguousWires ==
  { IcefWire(offset_code * 32, 2,
             Field(<<>>, unit_offset_bytes(offset_code)) \o <<3>>
               \o Field(<<3>>, unit_offset_bytes(offset_code)) \o <<3>>) :
      offset_code \in 1..4 }

\* The icef boxes with every pair of codes, up to MaxUnits units and the
\* fields above.
IcefWires ==
  UNION { UNION { UNION {
    { IcefWire(offset_code * 32 + size_code * 4, n, fields) :
      fields \in UnitFields(n, unit_offset_bytes(offset_code),
                            unit_size_bytes(size_code)) } :
    n \in 0..MaxUnits } : size_code \in 0..4 } : offset_code \in 0..4 }

\* The test cases' bytes with other values in their fields.
UncCWires ==
  { Patch(Patch(Patch(uncC_parse, 43, <<flags>>), 56, write32(cols)), 60,
          write32(rows)) :
      flags \in {0, 128, 72}, cols \in TileFields, rows \in TileFields }

CmpCWires ==
  { Patch(Patch(cmpC_defl, 12, fourcc_bytes(id)), 16, <<unit>>) :
      id \in { <<"d", "e", "f", "l">>, <<"z", "l", "i", "b">>,
               <<"b", "r", "o", "t">> },
      unit \in 0..3 }

ClocWires == { Patch(cloc_expected, 12, <<v>>) : v \in 0..7 }

SplzWires ==
  { Patch(Patch(splz_expected, 28, write32(a)), 32, write32(b)) :
      a \in Floats, b \in Floats }

SnucWires ==
  { Patch(Patch(Patch(snuc_expected, 20, <<flags>>), 29, write32(g)), 37,
          write32(o)) :
      flags \in {0, 128}, g \in Floats, o \in Floats }

CmpdWires ==
  { Patch(Patch(cmpd_multi_expected, 12, write16(a)), 16, write16(b)) :
      a \in {0, 1, 4}, b \in {6, 7, 11} }
    \cup { <<0, 0, 0, 19>> \o fourcc_bytes(<<"c", "m", "p", "d">>)
             \o <<0, 0, 0, 2>> \o <<128, 0>> \o <<104, 116, 0>> \o <<0, 1>>,
           <<0, 0, 0, 12>> \o fourcc_bytes(<<"c", "m", "p", "d">>)
             \o <<0, 0, 0, 0>> }

\* The FullBoxes above and those of the test cases, each with every version.
Versioned(wires) == { Patch(w, 8, <<v>>) : w \in wires, v \in Versions }

WireBoxes ==
  IcefWires \cup ContiguousWires \cup UncCWires \cup CmpdWires
    \cup Versioned(CmpCWires \cup ClocWires \cup SplzWires \cup SnucWires
                     \cup {icef_24_8_bit, icef_0_16_bit, icef_32bit,
                           icef_uint64})

\* The boxes given to Box::write.
RECURSIVE IcefUnits(_)
IcefUnits(n) ==
  IF n = 0 THEN {<<>>}
  ELSE { << [unit_offset |-> o, unit_size |-> s] >> \o rest :
           o \in {<<>>, <<3>>, <<2, 3, 10>>, <<1, 0, 0, 10, 3>>},
           s \in {<<3>>, <<10, 3>>, <<1, 2, 3, 10>>},
           rest \in IcefUnits(n - 1) }

IcefBoxes ==
  { [type |-> <<"i", "c", "e", "f">>, units |-> units] :
      units \in UNION { IcefUnits(n) : n \in 0..MaxUnits } }

UncCBoxes ==
  { [type |-> <<"u", "n", "c", "C">>,
     profile |-> fourcc_bytes(<<"r", "g", "b", "a">>),
     components |->
       [i \in 1..n |-> [component_index |-> i - 1,
                        component_bit_depth |-> depth,
                        component_format |-> 0,
                        component_align_size |-> 0]],
     sampling_type |-> 0, interleave_type |-> 1, block_size |-> 0,
     components_little_endian |-> little_endian, block_pad_lsb |-> FALSE,
     block_little_endian |-> FALSE, block_reversed |-> FALSE,
     pad_unknown |-> little_endian,
     pixel_size |-> <<>>, row_align_size |-> <<>>, tile_align_size |-> <<>>,
     num_tile_cols |-> cols, num_tile_rows |-> rows] :
      n \in {1, 4}, depth \in {8, 16}, little_endian \in BOOLEAN,
      cols \in {<<1>>, <<2>>, <<1, 0>>}, rows \in {<<1>>, <<3>>} }

CmpCBoxes ==
  { [type |-> <<"c", "m", "p", "C">>, compression_type |-> fourcc_bytes(id),
     compressed_unit_type |-> unit] :
      id \in { <<"d", "e", "f", "l">>, <<"z", "l", "i", "b">>,
               <<"b", "r", "o", "t">> },
      unit \in 0..3 }

ClocBoxes == { [type |-> <<"c", "l", "o", "c">>, chroma_location |-> v] : v \in 0..6 }

SplzBoxes ==
  { [type |-> <<"s", "p", "l", "z">>, component_indices |-> indices,
     pattern_width |-> 2, pattern_height |-> 1,
     polarization_angles |-> <<a, b>>] :
      indices \in {<<>>, << <<1>> >>, << <<>>, <<1>> >>},
      a \in Floats, b \in Floats }

SnucBoxes ==
  { [type |-> <<"s", "n", "u", "c">>, component_indices |-> indices,
     nuc_is_applied |-> applied, image_width |-> <<2>>,
     image_height |-> <<1>>, nuc_gains |-> <<g, <<64, 0, 0, 0>> >>,
     nuc_offsets |-> << <<>>, o>>] :
      indices \in {<<>>, << <<>> >>}, applied \in BOOLEAN,
      g \in Floats, o \in Floats }

CmpdBoxes ==
  { [type |-> <<"c", "m", "p", "d">>, components |-> components] :
      components \in
        { <<>>,
          << [component_type |-> 1, component_type_uri |-> <<>>] >>,
          << [component_type |-> 4, component_type_uri |-> <<>>],
             [component_type |-> 5, component_type_uri |-> <<>>],
             [component_type |-> 6, component_type_uri |-> <<>>] >>,
          << [component_type |-> 32768, component_type_uri |-> <<104, 116>>],
             [component_type |-> 11, component_type_uri |-> <<>>] >> } }

Boxes ==
  IcefBoxes \cup UncCBoxes \cup CmpCBoxes \cup ClocBoxes \cup SplzBoxes
    \cup SnucBoxes \cup CmpdBoxes

(***************************************************************************)
(* The steps of the test cases: a byte sequence is read and the box read   *)
(* is written, or a box is written and the bytes written are read.         *)
(***************************************************************************)
BoxInit ==
  /\ box_pc = "idle"
  /\ box_wire = <<>>
  /\ box_limits = heif_get_global_security_limits
  /\ box_error = Error_Ok
  /\ box_box = <<>>
  /\ box_again = <<>>

\* The limits the test cases read a box of the type with: an uncC box with
\* or without limits, the others with the global limits.
LimitsOf(type) ==
  IF type = <<"u", "n", "c", "C">> THEN Limits
  ELSE {heif_get_global_security_limits}

\* Box::read(range, &box, limits) on the bytes data.
ReadBox(data, limits) ==
  /\ box_pc = "idle"
  /\ limits \in LimitsOf(box_type(data))
  /\ LET r == Box_read(data, limits)
     IN  /\ box_error' = r.error
         /\ box_box' = r.box
  /\ box_pc' = "read"
  /\ box_wire' = data
  /\ box_limits' = limits
  /\ box_again' = <<>>
  /\ UNCHANGED notBOX

\* box->write(writer) on the box read: box_again holds writer.get_data().
WriteRead ==
  /\ box_pc = "read"
  /\ box_box # <<>>
  /\ box_pc' = "rewritten"
  /\ box_again' = <<Box_write(box_box[1])>>
  /\ UNCHANGED <<box_wire, box_limits, box_error, box_box>>
  /\ UNCHANGED notBOX

\* box->write(writer) on a box made by the caller: box_wire holds
\* writer.get_data().
WriteBox(box) ==
  /\ box_pc = "idle"
  /\ box_pc' = "written"
  /\ box_box' = <<box>>
  /\ box_wire' = Box_write(box)
  /\ box_error' = Error_Ok
  /\ box_again' = <<>>
  /\ UNCHANGED box_limits
  /\ UNCHANGED notBOX

\* The type of the box made by the caller.
TheBoxType == box_box[1].type

\* Box::read on the bytes written: box_again holds what it returns.
ReadWritten(limits) ==
  /\ box_pc = "written"
  /\ limits \in LimitsOf(TheBoxType)
  /\ box_pc' = "reread"
  /\ box_limits' = limits
  /\ box_again' = <<Box_read(box_wire, limits)>>
  /\ UNCHANGED <<box_wire, box_error, box_box>>
  /\ UNCHANGED notBOX

(***************************************************************************)
(* Specifications: one per part, the other part's variables unchanged.     *)
(***************************************************************************)
InitAll ==
  /\ IDInit /\ VMTInit /\ EncInit /\ BayerInit /\ PolInit /\ CompInit
  /\ CtorInit /\ AttInit /\ BoxInit

NextID ==
  \/ \E flag \in BOOLEAN : SetUnif(flag)
  \/ \E ns \in Namespace : GetNewId(ns)
  \/ \E ns \in Namespace, n \in Bursts : GetNewIdTimes(ns, n)

SpecID == InitAll /\ [][NextID]_vars

\* A process that calls encode_vmt_metadata_track once.
NextVMT ==
  \/ \E bin \in BOOLEAN : runs = 0 /\ StartRun(bin)
  \/ \E cue_start \in CueStarts, body \in Bodies(binary) : ReadCue(cue_start, body)
  \/ \E cue_start \in CueStarts, body \in Bodies(binary) : ReadCueAbort(cue_start, body)
  \/ EndOfFile

SpecVMT == InitAll /\ [][NextVMT]_vars

\* A process that calls encode_vmt_metadata_track several times, on short
\* files.
NextVMTRuns ==
  \/ \E bin \in BOOLEAN : StartRun(bin)
  \/ \E cue_start \in CueStarts, body \in Bodies(binary) :
        Len(cue_log) < MaxRunCues /\ ReadCue(cue_start, body)
  \/ \E cue_start \in CueStarts, body \in Bodies(binary) :
        Len(cue_log) < MaxRunCues /\ ReadCueAbort(cue_start, body)
  \/ EndOfFile

SpecVMTRuns == InitAll /\ [][NextVMTRuns]_vars

\* One call of encode_tile.
NextENC ==
  \/ enc_pc = "idle" /\ \E cfg \in EncConfigs : EncodeTile(cfg)
  \/ EncodeRow

SpecENC == InitAll /\ [][NextENC]_vars

\* One call of the demosaic operation.
NextBAYER ==
  \/ bayer_pc = "idle"
       /\ \E input \in BayerInputs, err \in add_plane_errors :
            ConvertColorspace(input, err)
  \/ bayer_pc = "idle" /\ \E input_state \in InputStates : StateAfterConversion(input_state)

SpecBAYER == InitAll /\ [][NextBAYER]_vars

\* Calls on the polarization patterns of one image, in any order.
NextPOL ==
  \/ Len(pol_patterns) < MaxPatterns
       /\ \E a \in AddArguments : AddPolarizationPattern(a)
  \/ \E image_null \in BOOLEAN, component_index \in ComponentIndices :
       GetPatternIndexForComponent(image_null, component_index)
  \/ \E image_null \in BOOLEAN : GetNumberOfPatterns(image_null)

SpecPOL == InitAll /\ [][NextPOL]_vars

\* One call of the generic compression.
NextCOMP ==
  \/ comp_pc = "idle"
       /\ \E method \in Methods : UnciCompressionToFourcc(method)
  \/ comp_pc = "idle"
       /\ \E build \in Builds, fourcc_code \in FourccCodes,
             data \in DataInputs :
            CompressUnciFourcc(build, fourcc_code, data)

SpecCOMP == InitAll /\ [][NextCOMP]_vars

\* The construction of one encoder.
NextCTOR ==
  ctor_pc = "idle" /\ \E image \in EncoderImages : Construct(image)

SpecCTOR == InitAll /\ [][NextCTOR]_vars

\* Attachment calls on one image, in any order.
NextATT ==
  \/ NumAttachments < MaxAttachments
       /\ \E a \in BayerArguments : SetBayerPattern(a)
  \/ NumAttachments < MaxAttachments
       /\ \E a \in PolarizationArguments : AddPolarization(a)
  \/ NumAttachments < MaxAttachments
       /\ \E a \in BadPixelsArguments : AddSensorBadPixelsMap(a)
  \/ NumAttachments < MaxAttachments
       /\ \E a \in NucArguments : AddSensorNuc(a)

SpecATT == InitAll /\ [][NextATT]_vars

\* One test case of the boxes.
NextBOX ==
  \/ \E data \in WireBoxes, limits \in Limits : ReadBox(data, limits)
  \/ WriteRead
  \/ \E box \in Boxes : WriteBox(box)
  \/ \E limits \in Limits : ReadWritten(limits)

SpecBOX == InitAll /\ [][NextBOX]_vars

(***************************************************************************)
(* Claims about IDCreator (checked under SpecID).                          *)
(* A history record holds, for one call or one run of calls: the namespace *)
(* named, the mode, the counter selected, the number of calls, the counter *)
(* before and after, the number ok of IDs returned, which are lo .. hi,    *)
(* and the number errs of calls that returned the overflow error.          *)
(***************************************************************************)
Returned(e) == e.ok # Zero

\* Calls i and j read the same counter as far as the mode and the namespace say.
SameModeAndCounter(e, f) == e.unif = f.unif /\ (e.unif \/ e.ns = f.ns)

\* C1: among the successful calls made in one mode (for one namespace when not
\* unified, for any namespace when unified) a later call returns a strictly
\* larger ID than every earlier one, so the IDs are pairwise distinct; the IDs
\* lo .. hi of one run of calls are as many distinct values as calls succeeded.
C1_DistinctAndIncreasing ==
  /\ \A i, j \in DOMAIN id_log :
       (i < j /\ Returned(id_log[i]) /\ Returned(id_log[j])
          /\ SameModeAndCounter(id_log[i], id_log[j]))
       => Lt(id_log[i].hi, id_log[j].lo)
  /\ \A i \in DOMAIN id_log :
       Returned(id_log[i])
       => /\ Le(id_log[i].lo, id_log[i].hi)
          /\ Add(Sub(id_log[i].hi, id_log[i].lo), One) = id_log[i].ok

\* C1 witness: two successful calls in unified mode that name different
\* namespaces, followed by a third in the same mode.
C1_Witness ==
  /\ Len(id_log) = 3
  /\ \A i \in 1..3 : id_log[i].unif /\ Returned(id_log[i])
  /\ id_log[1].ns # id_log[2].ns
  /\ id_log[3].ns = id_log[1].ns

\* C2 (as claimed): an ID returned for a namespace is never equal to an ID
\* returned earlier for the same namespace, whatever set_unif calls intervene.
C2_NeverReissuedForNamespace ==
  \A i, j \in DOMAIN id_log :
    (i < j /\ Returned(id_log[i]) /\ Returned(id_log[j])
       /\ id_log[i].ns = id_log[j].ns)
    => (Lt(id_log[i].hi, id_log[j].lo) \/ Lt(id_log[j].hi, id_log[i].lo))

\* Number of calls among the first k history records made in mode unif for
\* namespace ns (for any namespace when unif).
RECURSIVE CallsBefore(_, _, _)
CallsBefore(k, unif, ns) ==
  IF k = 0 THEN Zero
  ELSE Add(CallsBefore(k - 1, unif, ns),
           IF id_log[k].unif = unif /\ (unif \/ id_log[k].ns = ns)
             THEN id_log[k].calls ELSE Zero)

\* C3: the k-th call made for a namespace in non-unified mode returns k,
\* whatever was called for the other namespaces, and the k-th call made in
\* unified mode returns k whatever namespaces the unified calls name (so
\* successive unified calls return consecutive values), for every k up to
\* 2^32 - 1: a record whose calls are the (k0+1)-th .. (k0+n)-th returns
\* k0+1 .. Min(k0+n, 2^32 - 1).
C3_KthCallReturnsK ==
  \A j \in DOMAIN id_log :
    LET e  == id_log[j]
        k0 == CallsBefore(j - 1, e.unif, e.ns)
    IN  Lt(k0, MaxU32)
        => /\ e.ok = Min(e.calls, Sub(MaxU32, k0))
           /\ e.lo = Add(k0, One)
           /\ e.hi = Add(k0, e.ok)

\* C3 witness: two calls for item, then a call for track that returns 1 in
\* non-unified mode.
C3_WitnessNamespaces ==
  /\ Len(id_log) = 2
  /\ ~id_log[1].unif /\ id_log[1].ns = "item" /\ id_log[1].calls = N(2)
  /\ ~id_log[2].unif /\ id_log[2].ns = "track" /\ id_log[2].lo = One

\* C4: no call returns 0; the call that returns 0xFFFFFFFF leaves the selected
\* counter at 0; a call that finds its counter at 0 returns the error
\* Usage_error "ID namespace overflow" and leaves the counter at 0; once a
\* counter is 0 no later call that selects it returns an ID.
C4_OverflowIsPermanent ==
  /\ \A i \in DOMAIN id_log :
       LET e == id_log[i]
       IN  /\ Returned(e) => (Lt(Zero, e.lo) /\ Le(e.hi, MaxU32))
           /\ (Returned(e) /\ e.hi = MaxU32) => e.after = Zero
           /\ e.before = Zero
              => /\ e.ok = Zero
                 /\ e.errs = e.calls
                 /\ e.error = "Usage_error: ID namespace overflow"
                 /\ e.after = Zero
           /\ e.errs # Zero => e.error = "Usage_error: ID namespace overflow"
           /\ e.errs = Zero => e.error = "Ok"
  /\ \A i, j \in DOMAIN id_log :
       (i < j /\ id_log[i].counter = id_log[j].counter /\ id_log[i].after = Zero)
       => (id_log[j].ok = Zero /\ id_log[j].after = Zero)

\* C4 witness: a single call returns 0xFFFFFFFF and the next call that selects
\* the same counter returns the error.
C4_Witness ==
  \E i, j \in DOMAIN id_log :
    /\ i < j
    /\ id_log[i].calls = One /\ id_log[i].lo = MaxU32
    /\ id_log[j].counter = id_log[i].counter
    /\ id_log[j].calls = One /\ id_log[j].errs = One

(***************************************************************************)
(* Claims about encode_vmt_metadata_track (checked under SpecVMT, a        *)
(* process that makes one call, and SpecVMTRuns, one that makes several).  *)
(* cue_log holds the cues the call has read, each with its start           *)
(* timestamp as written, the timestamp ts parsed from it and the bytes     *)
(* concat of its body; last_cue holds the statics and the number of        *)
(* samples as they were before the last cue of cue_log was processed.      *)
(***************************************************************************)
\* The call is between two cues, the last cue read just processed.
AfterCue == vmt_pc = "reading" /\ last_cue # <<>>

\* The call has returned.
Returned_vmt == vmt_pc = "idle" /\ runs > 0

LastCue == cue_log[Len(cue_log)]

Before == last_cue[1]

\* Sum of the durations of the first k samples of the track: the presentation
\* time of sample k + 1.
RECURSIVE PresentationTime(_)
PresentationTime(k) ==
  IF k = 0 THEN Zero ELSE Add(PresentationTime(k - 1), track[k].duration)

\* C5: every sample added to the track has a duration > 0 (and a uint32_t
\* one), presentation times do not decrease from one sample to the next, no
\* sample is the flush's while the file is being read, and when the call has
\* returned the last sample, and only the last, is the flush's: its duration
\* is 1 and its data the pending payload. This holds whatever the cues are,
\* valid or not.
C5_SamplesOrdered ==
  /\ \A i \in DOMAIN track :
       Lt(Zero, track[i].duration) /\ Le(track[i].duration, MaxU32)
  /\ \A i \in 1..(Len(track) - 1) :
       Le(PresentationTime(i - 1), PresentationTime(i))
  /\ vmt_pc = "reading" => \A i \in DOMAIN track : ~track[i].terminal
  /\ Returned_vmt
     => /\ Len(track) >= 1
        /\ track[Len(track)] = Sample(One, prev_metadata, TRUE)
        /\ \A i \in 1..(Len(track) - 1) : ~track[i].terminal

\* C5 witness: a call has returned after reading three cues, one of them
\* discarded for its timestamp, and has added two samples before the last.
C5_Witness ==
  /\ Returned_vmt
  /\ Len(cue_log) = 3
  /\ \E i \in DOMAIN cue_log : cue_log[i].ts = BAD_VMT_TIMESTAMP
  /\ Len(track) = 3

\* The start timestamp is written as the grammar asks, without minus sign and
\* with no or three fraction digits.
WellFormed(cue_start) ==
  LET match == MatchTimestamp(cue_start)
  IN  /\ match.matched
      /\ Find(cue_start, "-") = Len(cue_start)
      /\ Len(match.fs) \in {0, 3}

\* The first call of the process has returned from a file of exactly two
\* cues, well-formed, the second later than the first.
TwoCueFile ==
  /\ Returned_vmt /\ runs = 1
  /\ Len(cue_log) = 2
  /\ WellFormed(cue_log[1].cue_start) /\ WellFormed(cue_log[2].cue_start)
  /\ Lt(cue_log[1].ts, cue_log[2].ts)

\* C6 (as claimed): such a file yields exactly two samples, one of duration
\* t2 - t1 with the bytes of the first cue, then the last one of duration 1
\* with the bytes of the second cue.
C6_TwoCuesTwoSamples ==
  TwoCueFile
  => track = << Sample(Sub(cue_log[2].ts, cue_log[1].ts), cue_log[1].concat, FALSE),
                Sample(One, cue_log[2].concat, TRUE) >>

\* C7 (as claimed): a cue with a well-formed timestamp earlier than the
\* pending timestamp adds no sample and leaves prev_ts and prev_metadata as
\* they were.
C7_LateCueDiscarded ==
  (AfterCue /\ WellFormed(LastCue.cue_start)
     /\ LastCue.ts # BAD_VMT_TIMESTAMP /\ Before.pre_ts.engaged
     /\ Lt(LastCue.ts, Before.pre_ts.value))
  => /\ Len(track) = Before.pre_samples
     /\ prev_ts = Before.pre_ts
     /\ prev_metadata = Before.pre_metadata

\* The bytes of cues i .. j of the file, in file order.
RECURSIVE ConcatOf(_, _)
ConcatOf(i, j) ==
  IF i > j THEN <<>> ELSE cue_log[i].concat \o ConcatOf(i + 1, j)

\* Cues i .. j, at least two, follow one another in the file with one
\* well-formed timestamp.
SameTimestampRun(i, j) ==
  /\ i < j
  /\ \A k \in i..j :
       /\ WellFormed(cue_log[k].cue_start)
       /\ cue_log[k].ts # BAD_VMT_TIMESTAMP
       /\ cue_log[k].ts = cue_log[i].ts

\* The bytes of run are in data, one after the other.
Within(run, data) ==
  \E off \in 0..(Len(data) - Len(run)) :
    SubSeq(data, off + 1, off + Len(run)) = run

\* C8 (as claimed): a valid cue at the pending timestamp adds no sample,
\* puts its bytes after the pending ones and leaves prev_ts at its value; and
\* when the call has returned, the bytes of every run of cues that share one
\* timestamp are, in file order, in the data of one sample.
C8_EqualTimestampMerged ==
  /\ (AfterCue /\ LastCue.ts # BAD_VMT_TIMESTAMP /\ Before.pre_ts.engaged
        /\ LastCue.ts = Before.pre_ts.value)
     => /\ Len(track) = Before.pre_samples
        /\ prev_metadata = Before.pre_metadata \o LastCue.concat
        /\ prev_ts = Before.pre_ts
  /\ Returned_vmt
     => \A i, j \in DOMAIN cue_log :
          SameTimestampRun(i, j)
          => \E k \in DOMAIN track : Within(ConcatOf(i, j), track[k].data)

\* The start timestamp has a minus sign.
Negative(cue_start) == Find(cue_start, "-") < Len(cue_start)

\* The start timestamp is not of the grammar, or its fraction is not of three
\* digits.
Malformed(cue_start) ==
  LET match == MatchTimestamp(cue_start)
  IN  ~match.matched \/ (match.fs # <<>> /\ Len(match.fs) # 3)

\* C9 (as claimed): a cue whose start timestamp is negative or malformed gets
\* the timestamp BAD_VMT_TIMESTAMP, adds no sample and leaves prev_ts and
\* prev_metadata as they were.
C9_BadTimestampDiscarded ==
  (AfterCue /\ (Negative(LastCue.cue_start) \/ Malformed(LastCue.cue_start)))
  => /\ LastCue.ts = BAD_VMT_TIMESTAMP
     /\ Len(track) = Before.pre_samples
     /\ prev_ts = Before.pre_ts
     /\ prev_metadata = Before.pre_metadata

\* C10 (as claimed): the samples a call has added when it returns are those
\* the same call on the same file adds in a process of its own, however many
\* calls came before it.
C10_RunsIndependent ==
  Returned_vmt => track = alone.track

(***************************************************************************)
(* Claims about unc_encoder_component_interleave (checked under SpecENC).  *)
(* row_log holds, for every row encoded so far, the positions out_pos had  *)
(* before and after the row, in the output of either image.                *)
(***************************************************************************)
\* The samples of the i-th row encoded, in the image and in the second image.
Samples(i) == SourceRow(enc_cfg, i, row_log[i].plane_width)

Others(i) == OtherRow(enc_cfg, i, row_log[i].plane_width)

BitPacked == enc_cfg.bpp % 8 # 0

\* C11: the write position never passes the size compute_tile_data_size_bytes
\* gave to data (it only grows, and is within the size after every row, so
\* every byte of the row was written inside data), and when encode_tile
\* returns it is that size: the tile has exactly the bytes computed, for
\* every tile size and every component set (the image being of the format
\* the encoder has the components of); no write is outside data, and the
\* call returns.
C11_TileSizeLaw ==
  /\ (enc_pc # "idle" /\ SameFormat)
     => /\ Len(enc.data) = total_size
        /\ enc.out_pos <= total_size
        /\ \A i \in DOMAIN row_log :
             row_log[i].from <= row_log[i].to /\ row_log[i].to <= total_size
        /\ ~enc.undefined
        /\ enc_pc # "aborted"
  /\ (enc_pc = "done" /\ SameFormat) => enc.out_pos = total_size

\* C11 witness: encode_tile has returned the 10 bytes of a bit-packed 4:2:0
\* tile of odd width and height: 3 x 1 samples of 10 bits.
C11_Witness ==
  /\ enc_pc = "done" /\ SameFormat
  /\ enc_cfg.chroma = "420" /\ enc_cfg.width = 3 /\ enc_cfg.height = 1
  /\ enc_cfg.bpp = 10
  /\ enc.out_pos = 10 /\ total_size = 10

\* The bytes of data from position from up to position to - 1.
Range(bytes, from, to) == SubSeq(bytes, from + 1, to)

\* C12: in the bit-packed path, a row on which two images agree gives the
\* same bytes at the same positions whatever their other rows hold, and the
\* byte ranges of the rows follow one another without a byte in common.
C12_RowIndependence ==
  /\ \A i \in DOMAIN row_log :
       LET e == row_log[i]
       IN  (BitPacked /\ SameFormat /\ Samples(i) = Others(i))
           => /\ e.from = e.shadow_from /\ e.to = e.shadow_to
              /\ Range(enc.data, e.from, e.to)
                   = Range(shadow.data, e.shadow_from, e.shadow_to)
  /\ \A i \in 1..(Len(row_log) - 1) :
       BitPacked => row_log[i].to = row_log[i + 1].from

\* C12 witness: two images of 7-bit samples, two rows of three samples (21
\* bits, the last byte of a row partly filled), that agree on the second row
\* and give different bytes for the first.
C12_Witness ==
  /\ enc_pc = "done"
  /\ enc_cfg.chroma = "monochrome" /\ enc_cfg.bpp = 7
  /\ enc_cfg.width = 3 /\ enc_cfg.height = 2 /\ enc_cfg.keep = 2
  /\ Samples(2) = Others(2) /\ Samples(1) # Others(1)
  /\ Range(enc.data, 0, 3) # Range(shadow.data, 0, 3)
  /\ Range(enc.data, 3, 6) = Range(shadow.data, 3, 6)

\* The bits of a sequence of bytes, the highest bit of each byte first.
RECURSIVE BitsOf(_)
BitsOf(bytes) ==
  IF bytes = <<>> THEN <<>> ELSE ByteBits(Head(bytes)) \o BitsOf(Tail(bytes))

\* The bytes of a row read back: bpp bits per sample from the start of the
\* row's bytes, highest bit first; the bytes of a byte-aligned sample of
\* more than 8 bits are taken in the order the components_little_endian
\* flag of uncC gives, lowest byte first.
ReadBack(bytes, plane_width, bpp, byte_aligned) ==
  IF byte_aligned /\ bpp > 8
    THEN [x \in 1..plane_width |->
            LoadLE(bytes, (x - 1) * (bpp \div 8) + 1, bpp \div 8)]
    ELSE [x \in 1..plane_width |->
            SubSeq(BitsOf(bytes), (x - 1) * bpp + 1, x * bpp)]

\* C13 (as claimed): when encode_tile has returned, reading the bytes of
\* every row of every component back gives the samples of that row of the
\* source image, for every bit depth from 1 to 32.
C13_RoundTrip ==
  (enc_pc = "done" /\ SameFormat)
  => \A i \in DOMAIN row_log :
       LET e == row_log[i]
       IN  ReadBack(Range(enc.data, e.from, e.to), e.plane_width,
                    enc_cfg.bpp, ~BitPacked) = Samples(i)

(***************************************************************************)
(* Claims about the bilinear demosaic (checked under SpecBAYER).           *)
\* The accumulator along a row of the bit-packed path: for each sample from
\* x on, the state after its push and the state after its drain loop.
RECURSIVE accumulator_trace(_, _, _, _, _)
accumulator_trace(st, row, x, plane_width, bpp) ==
  IF x >= plane_width THEN <<>>
  ELSE LET pushed == push(st, LoadSample(row, x, bpp), bpp)
           drained == drain(pushed)
       IN  << [pushed |-> pushed, drained |-> drained] >>
             \o accumulator_trace(drained, row, x + 1, plane_width, bpp)

\* The trace of row i of the log.
TraceOf(i) ==
  accumulator_trace(row_start(FreshTile(0)),
                    StoreRow(Samples(i), enc_cfg.bpp), 0,
                    row_log[i].plane_width, enc_cfg.bpp)

\* The bits of a word above its n low bits are 0.
Below2To(word, n) == \A k \in 1..(Len(word) - n) : word[k] = 0

\* C28: in the bit-packed path, for every bit depth in 1..32 that is not a
\* multiple of 8, after the drain loop of each sample the accumulator holds
\* at most 7 pending bits and its value is below 2^(pending bits); the
\* accumulator never holds more than 39 bits; at the end of the row at most
\* one padding byte is written, and its unused low bits are 0.
C28_AccumulatorInvariant ==
  (row_log # <<>> /\ BitPacked)
    => LET i == Len(row_log)
           w == row_log[i].plane_width
           trace == TraceOf(i)
           pending == trace[w].drained.accumulated_bits
       IN  /\ \A x \in 1..w :
                 /\ trace[x].drained.accumulated_bits <= 7
                 /\ Below2To(trace[x].drained.accumulator,
                             trace[x].drained.accumulated_bits)
                 /\ trace[x].pushed.accumulated_bits <= 39
                 /\ Below2To(trace[x].pushed.accumulator, 39)
           /\ row_log[i].to - row_log[i].from
                = (w * enc_cfg.bpp) \div 8 + (IF pending > 0 THEN 1 ELSE 0)
           /\ (pending > 0 /\ row_log[i].to <= Len(enc.data))
                => ByteVal(SubSeq(ByteBits(enc.data[row_log[i].to]),
                                  pending + 1, 8) \o Zeros(pending)) = 0

\* C28 witness: a row of three 31-bit samples with every bit set was
\* packed; 5 bits were pending after the third.
C28_Witness ==
  /\ row_log # <<>> /\ enc_cfg.bpp = 31
  /\ row_log[Len(row_log)].plane_width = 3
  /\ \E x \in 1..3 : Samples(Len(row_log))[x] = [k \in 1..31 |-> 1]
  /\ TraceOf(Len(row_log))[3].drained.accumulated_bits = 5
  /\ row_log[Len(row_log)].to - row_log[Len(row_log)].from = 12


(***************************************************************************)
\* convert_colorspace has returned an image.
Demosaiced == bayer_pc = "converted" /\ conv_result.image # <<>>

OutImage == conv_result.image[1]

Columns == 0..(conv_input.width - 1)

Lines == 0..(conv_input.height - 1)

\* C14: for every output pixel and channel, the input samples read are at
\* coordinates of the image, and the value written is at most the highest
\* sample value of the bit depth.
C14_DemosaicInBounds ==
  Demosaiced
  => \A y \in Lines, x \in Columns, ch \in 0..2 :
       /\ OutImage.out[y][x][ch].reads \subseteq (Columns \X Lines)
       /\ OutImage.out[y][x][ch].value <= 2 ^ conv_input.bpp - 1

\* C14 witness: in a 3 x 3 image with a 2 x 2 pattern red green green blue,
\* green at the top left corner comes from the two neighbours inside the
\* image, blue at the bottom right corner from the neighbour up and left.
C14_Witness ==
  /\ Demosaiced
  /\ conv_input.width = 3 /\ conv_input.height = 3
  /\ conv_input.pw = 2 /\ conv_input.ph = 2
  /\ conv_input.pixels = <<0, 1, 1, 2>>
  /\ OutImage.out[0][0][1].reads = {<<1, 0>>, <<0, 1>>}
  /\ OutImage.out[2][2][2].reads = {<<1, 1>>}

\* The channel of the pattern position a pixel falls on.
ChannelAt(x, y) ==
  pattern_channel_of(conv_input)[(y % conv_input.ph) * conv_input.pw
                                   + (x % conv_input.pw)]

\* The coordinates averaged for channel ch at pixel (x, y): those inside the
\* image, other than (x, y), less than pw columns and less than ph lines
\* away, whose pattern position has channel ch.
Averaged(x, y, ch) ==
  { c \in Columns \X Lines :
      /\ c # <<x, y>>
      /\ c[1] - x < conv_input.pw /\ x - c[1] < conv_input.pw
      /\ c[2] - y < conv_input.ph /\ y - c[2] < conv_input.ph
      /\ ChannelAt(c[1], c[2]) = ch }

RECURSIVE SumAt(_)
SumAt(coords) ==
  IF coords = {} THEN 0
  ELSE LET c == CHOOSE c \in coords : TRUE
       IN  conv_input.plane[c[2]][c[1]] + SumAt(coords \ {c})

\* C15: the channel a pixel's pattern position provides is the input sample
\* unchanged; another channel is (S + n / 2) / n for the sum S and the
\* number n of the samples averaged, and 0 when there is none.
C15_Kernel ==
  Demosaiced
  => \A y \in Lines, x \in Columns, ch \in 0..2 :
       LET n == Cardinality(Averaged(x, y, ch))
           S == SumAt(Averaged(x, y, ch))
       IN  OutImage.out[y][x][ch].value =
             IF ch = ChannelAt(x, y) THEN conv_input.plane[y][x]
             ELSE IF n = 0 THEN 0
             ELSE (S + n \div 2) \div n

\* C15 witness: a channel averaged over several samples whose sum is not a
\* multiple of their number, and rounded up.
C15_Witness ==
  /\ Demosaiced
  /\ \E y \in Lines, x \in Columns, ch \in 0..2 :
       LET n == Cardinality(Averaged(x, y, ch))
           S == SumAt(Averaged(x, y, ch))
       IN  /\ ch # ChannelAt(x, y) /\ n > 1
           /\ OutImage.out[y][x][ch].value = S \div n + 1

\* The pattern has a red, a green and a blue position.
HasRedGreenBlue ==
  \A ch \in 0..2 :
    \E i \in 0..(conv_input.pw * conv_input.ph - 1) :
      pattern_channel_of(conv_input)[i] = ch

\* C16: of an image at least as large as the pattern, with one value v at
\* every sample and a pattern that has red, green and blue, every channel
\* of every output pixel is v.
C16_ConstantImage ==
  (/\ Demosaiced
   /\ conv_input.width >= conv_input.pw /\ conv_input.height >= conv_input.ph
   /\ HasRedGreenBlue
   /\ \A y \in Lines, x \in Columns :
        conv_input.plane[y][x] = conv_input.plane[0][0])
  => \A y \in Lines, x \in Columns, ch \in 0..2 :
       OutImage.out[y][x][ch].value = conv_input.plane[0][0]

\* C16 witness: the image of 4 x 4 samples, all 255, with the pattern red
\* green green blue, demosaiced, its top left pixel 255 in every channel.
C16_Witness ==
  /\ Demosaiced
  /\ conv_input.width = 4 /\ conv_input.height = 4 /\ conv_input.bpp = 8
  /\ conv_input.pw = 2 /\ conv_input.ph = 2
  /\ conv_input.pixels = <<0, 1, 1, 2>>
  /\ \A y \in Lines, x \in Columns : conv_input.plane[y][x] = 255
  /\ \A ch \in 0..2 : OutImage.out[0][0][ch].value = 255

\* The image has a pattern of at least one position, and some position of
\* it names a component that is not red, green or blue.
NonRGBPattern ==
  /\ conv_input.has_bayer_pattern
  /\ conv_input.pw >= 1 /\ conv_input.ph >= 1
  /\ \E i \in 1..(conv_input.pw * conv_input.ph) :
       conv_input.component_types[conv_input.pixels[i] + 1]
         \notin { heif_uncompressed_component_type_red,
                  heif_uncompressed_component_type_green,
                  heif_uncompressed_component_type_blue }

\* C17 (as claimed): of an image whose pattern names a component that is
\* not red, green or blue, convert_colorspace returns the error
\* Unsupported_feature and no image.
C17_NonRGBRejected ==
  (bayer_pc = "converted" /\ NonRGBPattern)
  => /\ conv_result.error = "heif_error_Unsupported_feature"
     /\ conv_result.image = <<>>

\* C17 (amended): of an image whose pattern names a component that is not
\* red, green or blue, convert_colorspace returns no image; the error is
\* the one add_plane gave for the output plane when it gave one (the plane
\* is added before the pattern is looked at), and Unsupported_feature with
\* Unsupported_data_version otherwise.
C17_NonRGBNoImage ==
  (bayer_pc = "converted" /\ NonRGBPattern)
  => /\ conv_result.image = <<>>
     /\ IF plane_error = add_plane_Ok
          THEN /\ conv_result.error = "heif_error_Unsupported_feature"
               /\ conv_result.suberror = "heif_suberror_Unsupported_data_version"
          ELSE /\ conv_result.error = plane_error.error
               /\ conv_result.suberror = plane_error.suberror

\* C17 witness: a 2 x 2 pattern red green Y blue was rejected, the output
\* plane having been added.
C17_Witness ==
  /\ bayer_pc = "converted"
  /\ conv_input.has_bayer_pattern
  /\ conv_input.pixels = <<0, 1, 3, 2>>
  /\ plane_error = add_plane_Ok
  /\ conv_result.error = "heif_error_Unsupported_feature"
  /\ conv_result.image = <<>>

\* The image has a pattern the demosaic converts.
RGBPattern ==
  /\ conv_input.has_bayer_pattern
  /\ conv_input.pw >= 1 /\ conv_input.ph >= 1
  /\ ~NonRGBPattern

FilterArrayState ==
  conv_input.colorspace = "filter_array" /\ conv_input.chroma = "monochrome"

\* C18 (as claimed): for a bit depth of 8 the output is interleaved_RGB, for
\* one above 8 and up to 16 interleaved_RRGGBB_LE, in the state offered and
\* in the image returned; for every other bit depth convert_colorspace
\* returns InternalError and no image.
C18_OtherDepthsInternalError ==
  /\ (bayer_pc = "offered" /\ FilterArrayState
        /\ conv_input.bits_per_pixel \in 8..16)
     => /\ Len(offered) = 1
        /\ offered[1].chroma = IF conv_input.bits_per_pixel = 8
                                 THEN "interleaved_RGB"
                                 ELSE "interleaved_RRGGBB_LE"
  /\ (bayer_pc = "converted" /\ RGBPattern /\ plane_error = add_plane_Ok)
     => IF conv_input.bpp \in 8..16
          THEN /\ conv_result.image # <<>>
               /\ OutImage.chroma = IF conv_input.bpp = 8
                                      THEN "interleaved_RGB"
                                      ELSE "interleaved_RRGGBB_LE"
          ELSE /\ conv_result.error = "InternalError"
               /\ conv_result.image = <<>>

\* C18 (amended): state_after_conversion offers interleaved_RGB with 8 bits
\* for a filter-array input of 8 bits, interleaved_RRGGBB_LE with the input's
\* bit depth for one above 8 and up to 16, and no state at all for any other
\* bit depth; convert_colorspace does not test the bit depth: it returns
\* InternalError exactly when the image has no pattern or a pattern
\* dimension is 0, and the image it returns is interleaved_RGB up to 8
\* bits, interleaved_RRGGBB_LE above.
C18_OtherDepthsNotOffered ==
  /\ (bayer_pc = "offered" /\ FilterArrayState)
     => offered =
          IF conv_input.bits_per_pixel = 8
            THEN << [colorspace |-> "RGB", has_alpha |-> FALSE,
                     chroma |-> "interleaved_RGB", bits_per_pixel |-> 8] >>
          ELSE IF conv_input.bits_per_pixel \in 9..16
            THEN << [colorspace |-> "RGB", has_alpha |-> FALSE,
                     chroma |-> "interleaved_RRGGBB_LE",
                     bits_per_pixel |-> conv_input.bits_per_pixel] >>
          ELSE <<>>
  /\ bayer_pc = "converted"
     => /\ (conv_result.error = "InternalError")
           <=> (~conv_input.has_bayer_pattern
                  \/ conv_input.pw = 0 \/ conv_input.ph = 0)
        /\ conv_result.image # <<>>
           => OutImage.chroma = IF conv_input.bpp <= 8
                                  THEN "interleaved_RGB"
                                  ELSE "interleaved_RRGGBB_LE"

\* C18 witness: no state was offered for a filter-array input of 4 bits.
C18_Witness ==
  /\ bayer_pc = "offered" /\ FilterArrayState
  /\ conv_input.bits_per_pixel = 4
  /\ offered = <<>>

(***************************************************************************)
(* Claims about the polarization patterns (checked under SpecPOL).         *)
(***************************************************************************)
LookedUp == pol_call.function = "index_for_component" /\ ~pol_call.image_null

\* Pattern i (counted from 0) lists the component looked up.
Lists(i) ==
  \E k \in DOMAIN pol_patterns[i + 1].component_indices :
    pol_patterns[i + 1].component_indices[k] = pol_call.component_index

\* Pattern i (counted from 0) has an empty component list.
AppliesToAll(i) == pol_patterns[i + 1].component_indices = <<>>

PatternPositions == 0..(Len(pol_patterns) - 1)

\* The least position of a set of positions, -1 for the empty set.
First(positions) ==
  IF positions = {} THEN -1
  ELSE CHOOSE i \in positions : \A j \in positions : i <= j

\* C19 (as claimed): the lookup returns the first pattern whose component
\* list contains the index; a pattern with an empty list is returned only
\* when no pattern of the image lists the component; -1 when there is
\* neither.
C19_EmptyListOnlyFallback ==
  LookedUp
    => pol_call.result =
         IF \E i \in PatternPositions : Lists(i)
           THEN First({i \in PatternPositions : Lists(i)})
           ELSE First({i \in PatternPositions : AppliesToAll(i)})

\* C19 (amended): the lookup returns the first pattern, in the order the
\* patterns were added, whose component list contains the index or is
\* empty, and -1 when the image has no such pattern or is nullptr.
C19_FirstListedOrEmpty ==
  pol_call.function = "index_for_component"
    => pol_call.result =
         IF pol_call.image_null THEN -1
         ELSE First({i \in PatternPositions : Lists(i) \/ AppliesToAll(i)})

\* C19 witness: a pattern with an empty list was added before one that
\* lists the component, and the lookup returned the former.
C19_Witness ==
  /\ LookedUp
  /\ Len(pol_patterns) = 2
  /\ AppliesToAll(0) /\ Lists(1)
  /\ pol_call.result = 0

(***************************************************************************)
(* Claims about the generic compression (checked under SpecCOMP).          *)
(***************************************************************************)
Compressed == comp_pc = "compressed"

\* The build has no back-end for the fourcc code passed.
NoBackend ==
  LET c == comp_call[1]
  IN \/ c.fourcc_code \notin {fourcc(<<"d", "e", "f", "l">>),
                              fourcc(<<"z", "l", "i", "b">>),
                              fourcc(<<"b", "r", "o", "t">>)}
     \/ /\ c.fourcc_code \in {fourcc(<<"d", "e", "f", "l">>),
                              fourcc(<<"z", "l", "i", "b">>)}
        /\ ~c.build.HAVE_ZLIB
     \/ /\ c.fourcc_code = fourcc(<<"b", "r", "o", "t">>)
        /\ ~c.build.HAVE_BROTLI

\* C20: compress_unci_fourcc returns the error Unsupported_feature /
\* Unsupported_generic_compression_method "Unsupported unci compression
\* method." and no data for every fourcc code without a compiled-in
\* back-end: every value other than "defl", "zlib", "brot", and those three
\* when their library is absent; unci_compression_to_fourcc gives 0, one of
\* these codes, for 'off' and for every value that is not in the enum.
C20_NoBackendUnsupported ==
  /\ (Compressed /\ NoBackend)
       => /\ ~comp_result[1].has_value
          /\ comp_result[1].error = "heif_error_Unsupported_feature"
          /\ comp_result[1].suberror =
               "heif_suberror_Unsupported_generic_compression_method"
          /\ comp_result[1].message = "Unsupported unci compression method."
  /\ (comp_pc = "translated"
        /\ comp_call[1].method \notin {heif_unci_compression_deflate,
                                       heif_unci_compression_zlib,
                                       heif_unci_compression_brotli})
       => comp_result[1] = 0

\* C20 witness: in a build with both libraries, the code that
\* unci_compression_to_fourcc gives for 'off' was passed and the error was
\* returned.
C20_Witness ==
  /\ Compressed
  /\ comp_call[1].build.HAVE_ZLIB /\ comp_call[1].build.HAVE_BROTLI
  /\ comp_call[1].fourcc_code =
       unci_compression_to_fourcc(heif_unci_compression_off)
  /\ comp_call[1].data # <<>>
  /\ ~comp_result[1].has_value

(***************************************************************************)
(* Claims about the constructor of the encoder (checked under SpecCTOR).   *)
(***************************************************************************)
Constructed == ctor_pc = "constructed"

SourceImage == ctor_image[1]

Encoder == ctor_enc[1]

\* N, the number of data components.
NumData == Len(SourceImage.components)

SourcePattern == SourceImage.bayer[1]

\* The component types of the source pattern, as a set.
PatternTypes ==
  {SourcePattern.pixels[i].component_index : i \in DOMAIN SourcePattern.pixels}

\* The pixel of the source pattern where a type appears first.
FirstAppearance(type) ==
  CHOOSE i \in DOMAIN SourcePattern.pixels :
    /\ SourcePattern.pixels[i].component_index = type
    /\ \A j \in 1..(i - 1) : SourcePattern.pixels[j].component_index # type

\* C25: for an image with N data components and a Bayer pattern, cmpd ends
\* with N + U entries, U the number of distinct component types of the
\* pattern; the U reference entries follow the data entries in order of
\* first appearance in the pattern and have no uncC entry; every cpat pixel
\* i has a component_index in N .. N+U-1, the cmpd entry of that index has
\* the type of source pattern pixel i, the pattern width and height are
\* kept and every gain is copied.
C25_BayerResolution ==
  (Constructed /\ SourceImage.bayer # <<>>)
    => LET cmpd == Encoder.m_cmpd
           cpat == Encoder.m_cpat[1]
           U == Cardinality(PatternTypes)
       IN  /\ Len(cmpd) = NumData + U
           /\ Len(Encoder.m_uncC.components) = NumData
           /\ {cmpd[NumData + k].component_type : k \in 1..U} = PatternTypes
           /\ \A k \in 1..U, l \in 1..U :
                k < l => FirstAppearance(cmpd[NumData + k].component_type)
                           < FirstAppearance(cmpd[NumData + l].component_type)
           /\ Encoder.m_cpat # <<>>
           /\ cpat.pattern_width = SourcePattern.pattern_width
           /\ cpat.pattern_height = SourcePattern.pattern_height
           /\ Len(cpat.pixels) = Len(SourcePattern.pixels)
           /\ \A i \in DOMAIN SourcePattern.pixels :
                /\ cpat.pixels[i].component_index
                     \in NumData..(NumData + U - 1)
                /\ cmpd[cpat.pixels[i].component_index + 1].component_type
                     = SourcePattern.pixels[i].component_index
                /\ cpat.pixels[i].component_gain
                     = SourcePattern.pixels[i].component_gain

\* C25 witness: a pattern of 2 x 2 pixels whose first pixel is blue and
\* whose types are not in increasing order of first appearance was resolved
\* for an image of two data components.
C25_Witness ==
  /\ Constructed /\ SourceImage.bayer # <<>>
  /\ NumData = 2
  /\ Len(SourcePattern.pixels) = 4
  /\ SourcePattern.pixels[1].component_index
       = heif_uncompressed_component_type_blue
  /\ Cardinality(PatternTypes) = 3
  /\ Encoder.m_cpat[1].pixels[1].component_index = 2
  /\ \E i \in 1..4 : SourcePattern.pixels[i].component_gain # 1

\* The type of source component i (counted from 1): the one the image
\* gives a component of a nonvisual image, else the one of its channel,
\* where Y is monochrome in an image without a Cb channel.
SourceType(i) ==
  LET c == SourceImage.components[i]
  IN  IF SourceImage.colorspace = "nonvisual" THEN c.component_type
      ELSE IF c.channel = "Y"
                /\ \A k \in 1..NumData : SourceImage.components[k].channel # "Cb"
        THEN heif_uncompressed_component_type_monochrome
      ELSE heif_channel_to_component_type(c.channel)

\* C26: after the construction for an image with N components, uncC holds
\* N entries in source index order, entry i has component_index i and the
\* bit depth of source component i, cmpd entry i holds the type of source
\* component i (Y is monochrome when the image has no Cb channel), every
\* uncC component_index is a cmpd index, and components_little_endian is
\* true exactly when some component has bpp > 8 and bpp % 8 = 0.
C26_BoxesMirrorComponents ==
  Constructed
    => LET uncC == Encoder.m_uncC
           cmpd == Encoder.m_cmpd
       IN  /\ Len(uncC.components) = NumData
           /\ \A i \in 1..NumData :
                /\ uncC.components[i].component_index = i - 1
                /\ uncC.components[i].component_bit_depth
                     = SourceImage.components[i].bpp
                /\ cmpd[i].component_type = SourceType(i)
                /\ uncC.components[i].component_index < Len(cmpd)
           /\ uncC.components_little_endian
                <=> \E i \in 1..NumData :
                      /\ SourceImage.components[i].bpp > 8
                      /\ SourceImage.components[i].bpp % 8 = 0

\* C26 witness: a monochrome image of 16 bits was given an encoder whose
\* cmpd entry is monochrome and whose components are little-endian.
C26_Witness ==
  /\ Constructed
  /\ SourceImage.colorspace = "monochrome"
  /\ SourceImage.components[1].bpp = 16
  /\ Encoder.m_cmpd[1].component_type
       = heif_uncompressed_component_type_monochrome
  /\ Encoder.m_uncC.components_little_endian

(***************************************************************************)
(* Claims about the attachment calls (checked under SpecATT).              *)
(***************************************************************************)
Called == att_call.function # "none"

Failed == Called /\ att_call.error # "heif_error_success"

Succeeded(function) ==
  att_call.function = function /\ att_call.error = "heif_error_success"

\* list is before with one entry after its last.
AppendedTo(list, before) ==
  /\ Len(list) = Len(before) + 1
  /\ SubSeq(list, 1, Len(before)) = before

\* C27: an attachment call that returns an error leaves every attachment of
\* the image unchanged; a successful heif_image_set_bayer_pattern leaves
\* the image with one Bayer pattern, the one passed; a successful add call
\* makes its own list one longer, with the entries it had first in their
\* order; a successful call leaves the other attachments unchanged.
C27_AttachmentCalls ==
  /\ Failed => att_image = att_before
  /\ Succeeded("heif_image_set_bayer_pattern")
       => /\ Len(att_image.bayer) = 1
          /\ att_image.bayer[1].pattern_width = 1
          /\ att_image.bayer[1].pattern_height = 1
          /\ att_image.polarization = att_before.polarization
          /\ att_image.bad_pixels = att_before.bad_pixels
          /\ att_image.nuc = att_before.nuc
  /\ Succeeded("heif_image_add_polarization_pattern")
       => /\ AppendedTo(att_image.polarization, att_before.polarization)
          /\ att_image.bayer = att_before.bayer
          /\ att_image.bad_pixels = att_before.bad_pixels
          /\ att_image.nuc = att_before.nuc
  /\ Succeeded("heif_image_add_sensor_bad_pixels_map")
       => /\ AppendedTo(att_image.bad_pixels, att_before.bad_pixels)
          /\ att_image.bayer = att_before.bayer
          /\ att_image.polarization = att_before.polarization
          /\ att_image.nuc = att_before.nuc
  /\ Succeeded("heif_image_add_sensor_nuc")
       => /\ AppendedTo(att_image.nuc, att_before.nuc)
          /\ att_image.bayer = att_before.bayer
          /\ att_image.polarization = att_before.polarization
          /\ att_image.bad_pixels = att_before.bad_pixels

\* C27 witness: heif_image_add_sensor_nuc returned the usage error on an
\* image that has a Bayer pattern and a polarization pattern, and the image
\* kept them.
C27_Witness ==
  /\ att_call.function = "heif_image_add_sensor_nuc"
  /\ att_call.error = "heif_error_Usage_error"
  /\ att_image.bayer # <<>>
  /\ Len(att_image.polarization) = 1
  /\ att_image = att_before

(***************************************************************************)
(* Claims about the whole cue loop of encode_vmt_metadata_track: what the  *)
(* samples of a call carry and when they start (checked under SpecVMT).    *)
(***************************************************************************)
\* The bytes of the cues i .. of the file that are not discarded, in file
\* order: a cue is discarded when its timestamp is BAD_VMT_TIMESTAMP or is
\* earlier than pending, the timestamp of the last cue kept before it.
RECURSIVE AcceptedPayloads(_, _)
AcceptedPayloads(i, pending) ==
  IF i > Len(cue_log) THEN <<>>
  ELSE IF cue_log[i].ts = BAD_VMT_TIMESTAMP \/ Lt(cue_log[i].ts, pending)
    THEN AcceptedPayloads(i + 1, pending)
  ELSE cue_log[i].concat \o AcceptedPayloads(i + 1, cue_log[i].ts)

\* The data of samples k .. of the track, one after the other.
RECURSIVE EmittedPayloads(_)
EmittedPayloads(k) ==
  IF k > Len(track) THEN <<>> ELSE track[k].data \o EmittedPayloads(k + 1)

\* C29 (as claimed): when the first call of the process has returned, the
\* data of its samples, one after the other, are the bytes of the cues that
\* were not discarded, in file order: no payload is dropped or added twice.
C29_PayloadConserved ==
  (Returned_vmt /\ runs = 1) => EmittedPayloads(1) = AcceptedPayloads(1, Zero)

\* C30 (as claimed): in the first call of the process, where *prev_ts reads 0
\* before the first cue, after every cue with a valid timestamp the durations
\* of the samples added so far sum up to prev_ts.
C30_DurationsSumToPrevTs ==
  (AfterCue /\ runs = 1 /\ LastCue.ts # BAD_VMT_TIMESTAMP)
  => PresentationTime(Len(track)) = prev_ts.value



(***************************************************************************)
(* Claims about the descriptor boxes (checked under SpecBOX).              *)
(***************************************************************************)

\* The type of the box whose bytes were read or written.
WireType == box_type(box_wire)

\* The box read, or made by the caller.
TheBox == box_box[1]

\* The version of the FullBox whose bytes were read.
WireVersion == box_wire[9]

\* The least of the widths that is at least n.
LeastWidth(widths, n) ==
  CHOOSE w \in widths : w >= n /\ \A v \in widths : v >= n => w <= v

\* The most bytes a value of the set takes.
Longest(values) == MaxCode({Len(v) : v \in values}, 0)

\* The bytes read are as Box::write lays a box out: in an icef box the
\* narrowest offset and size fields that hold the values of its units, and
\* no offset fields when every unit starts where the one before it ends.
CanonicalInput ==
  WireType = <<"i", "c", "e", "f">>
  => LET units == TheBox.units
         offset_bytes == unit_offset_bytes(box_wire[13] \div 32)
         size_bytes   == unit_size_bytes((box_wire[13] \div 4) % 8)
     IN  /\ size_bytes
              = LeastWidth({1, 2, 3, 4, 8},
                           Longest({units[i].unit_size : i \in DOMAIN units}))
         /\ offset_bytes
              = IF can_use_implied_offsets(units, 1, <<>>) THEN 0
                ELSE LeastWidth({2, 3, 4, 8},
                       Longest({units[i].unit_offset : i \in DOMAIN units}))

\* C21: when a canonical byte sequence is read and the box read is written,
\* the bytes written are the bytes read; and when a box is written and the
\* bytes written are read, the read succeeds and gives a box with the fields
\* of the box written.
C21_BoxRoundTrip ==
  /\ (box_pc = "rewritten" /\ CanonicalInput) => box_again = <<box_wire>>
  /\ box_pc = "reread"
     => /\ box_again[1].error = Error_Ok
        /\ box_again[1].box = <<TheBox>>

\* C21 witness: the bytes of TEST_CASE icef_0_16_bit are read, the box has
\* the two units the test expects, and writing it gives the bytes back.
C21_Witness ==
  /\ box_pc = "rewritten"
  /\ box_wire = icef_0_16_bit
  /\ TheBox.units = << [unit_offset |-> <<>>, unit_size |-> Num(16387)],
                       [unit_offset |-> Num(16387), unit_size |-> Num(2567)] >>
  /\ box_again = <<icef_0_16_bit>>

\* The FullBoxes whose parse knows version 0 only.
VersionZeroBoxes ==
  { <<"i", "c", "e", "f">>, <<"c", "l", "o", "c">>, <<"s", "p", "l", "z">>,
    <<"s", "n", "u", "c">>, <<"c", "m", "p", "C">> }

\* C22: reading an icef, cloc, splz, snuc or cmpC box whose version N is not
\* 0 gives no box and the error Unsupported_feature /
\* Unsupported_data_version with the message "<fourcc> box data version <N>
\* is not implemented yet", whatever bytes follow the header.
C22_BadVersionUnsupported ==
  (box_pc = "read" /\ WireType \in VersionZeroBoxes /\ WireVersion # 0)
  => /\ box_box = <<>>
     /\ box_error.error_code = "heif_error_Unsupported_feature"
     /\ box_error.sub_error_code = "heif_suberror_Unsupported_data_version"
     /\ box_error.message
          = <<WireType, " box data version ", WireVersion,
              " is not implemented yet">>

\* C22 witness: the bytes of TEST_CASE icef_bad_version (those of
\* icef_24_8_bit with version 1) are read and the error names icef and 1.
C22_Witness ==
  /\ box_pc = "read"
  /\ box_wire = Patch(icef_24_8_bit, 8, <<1>>)
  /\ box_box = <<>>
  /\ box_error.message
       = << <<"i", "c", "e", "f">>, " box data version ", 1,
            " is not implemented yet">>

\* An uncC box has been read; the fields num_tile_cols_minus_one and
\* num_tile_rows_minus_one of its bytes.
ReadUncC == box_pc = "read" /\ WireType = <<"u", "n", "c", "C">>

ColsField == Value(SubSeq(box_wire, Len(box_wire) - 7, Len(box_wire) - 4))

RowsField == Value(SubSeq(box_wire, Len(box_wire) - 3, Len(box_wire)))

AllOnes == <<255, 255, 255, 255>>

\* count is field + 1, not wrapped to 32 bits.
OneMore(count, field) == count # <<>> /\ Pred(count) = field

\* C23 (as claimed): the tile counts of an uncC box read are the fields plus
\* 1, without wrap-around; fields of 0xFFFFFFFE read without limits give
\* 4294967295; and a field of 0xFFFFFFFF makes the read fail with
\* Invalid_input / Invalid_parameter_value.
C23_OverflowInvalidInput ==
  ReadUncC
  => /\ box_box # <<>>
        => /\ OneMore(TheBox.num_tile_cols, ColsField)
           /\ OneMore(TheBox.num_tile_rows, RowsField)
     /\ (box_limits = heif_get_disabled_security_limits
           /\ ColsField = <<255, 255, 255, 254>>
           /\ RowsField = <<255, 255, 255, 254>>)
        => /\ box_box # <<>>
           /\ TheBox.num_tile_cols = AllOnes
           /\ TheBox.num_tile_rows = AllOnes
     /\ (ColsField = AllOnes \/ RowsField = AllOnes)
        => /\ box_box = <<>>
           /\ box_error.error_code = "heif_error_Invalid_input"
           /\ box_error.sub_error_code = "heif_suberror_Invalid_parameter_value"

\* C23 (amended): the tile counts of an uncC box read are the fields plus 1,
\* without wrap-around, for fields up to 0xFFFFFFFE; fields of 0xFFFFFFFE
\* read without limits give 4294967295; and under the global security
\* limits a field of 0xFFFFFFFF makes the read fail with
\* Memory_allocation_error (6) / Security_limit_exceeded (1000).
C23_TileCounts ==
  ReadUncC
  => /\ (box_box # <<>> /\ ColsField # AllOnes /\ RowsField # AllOnes)
        => /\ OneMore(TheBox.num_tile_cols, ColsField)
           /\ OneMore(TheBox.num_tile_rows, RowsField)
     /\ (box_limits = heif_get_disabled_security_limits
           /\ ColsField = <<255, 255, 255, 254>>
           /\ RowsField = <<255, 255, 255, 254>>)
        => /\ box_box # <<>>
           /\ TheBox.num_tile_cols = AllOnes
           /\ TheBox.num_tile_rows = AllOnes
     /\ (box_limits = heif_get_global_security_limits
           /\ (ColsField = AllOnes \/ RowsField = AllOnes))
        => /\ box_box = <<>>
           /\ box_error.error_code = "heif_error_Memory_allocation_error"
           /\ box_error.sub_error_code = "heif_suberror_Security_limit_exceeded"

\* C23 witness: the bytes of TEST_CASE uncC_parse_excess_tile_cols are read
\* under the global limits and the read fails for the security limit.
C23_Witness ==
  /\ ReadUncC
  /\ box_limits = heif_get_global_security_limits
  /\ ColsField = AllOnes /\ RowsField = <<127, 255>>
  /\ box_box = <<>>
  /\ box_error.error_code = "heif_error_Memory_allocation_error"

\* An icef box of version 0 has been read.
ReadIcef ==
  box_pc = "read" /\ WireType = <<"i", "c", "e", "f">> /\ box_box # <<>>

\* The header byte of the icef box read and the number of its units.
IcefHeader == box_wire[13]

IcefCount == Len(TheBox.units)

\* The sizes of the units before unit i, added up.
RECURSIVE SizesBefore(_)
SizesBefore(i) ==
  IF i = 1 THEN <<>>
  ELSE Plus(SizesBefore(i - 1), TheBox.units[i - 1].unit_size)

\* The units of the box are what the bytes after the count hold, each unit
\* an offset field of offset_bytes bytes and a size field of size_bytes
\* bytes, most significant byte first.  Without offset field a unit starts
\* where the one before it ends; without size field it ends where the next
\* one starts.
UnitsAre(offset_bytes, size_bytes) ==
  LET unit_bytes == offset_bytes + size_bytes
      at(i)      == 17 + (i - 1) * unit_bytes
  IN  /\ Len(box_wire) = 17 + IcefCount * unit_bytes
      /\ \A i \in 1..IcefCount :
           /\ offset_bytes # 0
              => TheBox.units[i].unit_offset
                   = Value(read(box_wire, at(i), offset_bytes))
           /\ offset_bytes = 0
              => TheBox.units[i].unit_offset = SizesBefore(i)
           /\ size_bytes # 0
              => TheBox.units[i].unit_size
                   = Value(read(box_wire, at(i) + offset_bytes, size_bytes))
           /\ (size_bytes = 0 /\ i < IcefCount)
              => Plus(TheBox.units[i].unit_offset, TheBox.units[i].unit_size)
                   = TheBox.units[i + 1].unit_offset

\* C24 (as claimed): the header byte of an icef box is (size code << 5) |
\* (offset code << 2); offset codes 0, 1, 2, 3 stand for offsets of 32, 40,
\* 48, 64 bits and size codes 0, 1, 2, 3 for sizes inferred or of 24, 32, 64
\* bits; the units the box reports are the fields of these widths.
C24_HeaderSizeCodeFirst ==
  ReadIcef
  => LET size_code   == IcefHeader \div 32
         offset_code == (IcefHeader \div 4) % 8
     IN  /\ size_code \in 0..3 /\ offset_code \in 0..3
         /\ UnitsAre(<<4, 5, 6, 8>>[offset_code + 1],
                     <<0, 3, 4, 8>>[size_code + 1])

\* C24 (amended): the header byte of an icef box is (offset code << 5) |
\* (size code << 2); offset codes 0, 1, 2, 3, 4 stand for no offset field
\* (each unit starts where the one before it ends, the first at 0) and
\* offsets of 16, 24, 32, 64 bits, size codes 0, 1, 2, 3, 4 for sizes of 8,
\* 16, 24, 32, 64 bits; the units the box reports are the fields of these
\* widths, so that header 0b01000000 with the bytes of TEST_CASE
\* icef_24_8_bit gives offsets 2563 and 131850 and sizes 3 and 7.
C24_HeaderOffsetCodeFirst ==
  /\ ReadIcef
     => LET offset_code == IcefHeader \div 32
            size_code   == (IcefHeader \div 4) % 8
        IN  /\ offset_code \in 0..4 /\ size_code \in 0..4
            /\ UnitsAre(<<0, 2, 3, 4, 8>>[offset_code + 1],
                        <<1, 2, 3, 4, 8>>[size_code + 1])
  /\ (box_pc = "read" /\ box_wire = icef_24_8_bit)
     => /\ box_box # <<>>
        /\ TheBox.units
             = << [unit_offset |-> Num(2563), unit_size |-> Num(3)],
                  [unit_offset |-> Num(131850), unit_size |-> Num(7)] >>

\* C24 witness: the bytes of TEST_CASE icef_24_8_bit, header 0b01000000, are
\* read and the box has two units, at 2563 of size 3 and at 131850 of size 7.
C24_Witness ==
  /\ ReadIcef
  /\ box_wire = icef_24_8_bit
  /\ IcefHeader = 64
  /\ TheBox.units = << [unit_offset |-> <<10, 3>>, unit_size |-> <<3>>],
                       [unit_offset |-> <<2, 3, 10>>, unit_size |-> <<7>>] >>

====
